---------------------------- MODULE Spec2Model ----------------------------
(***************************************************************************)
(* A model of the maze game's algorithmic core: the grid and its           *)
(* classification queries (src/src/maze.py), the maze generator, the three *)
(* pathfinders (src/src/pathfinding.py), the torch visibility field        *)
(* (src/src/camera.py), the enemy's hit / respawn life cycle               *)
(* (src/src/enemy.py), the player's moves (src/src/player.py) and the      *)
(* game loop with its menus, sessions and respawns (src/main.py).          *)
(*                                                                         *)
(* Coordinates are pairs <<x, y>>.  A maze is a record                     *)
(* [width, height, grid] with grid[y][x] = 1 for a wall and 0 for a path,  *)
(* indexed from 0 as the Python lists are.  Time is counted in quarters of a *)
(* second.                                                                 *)
(***************************************************************************)
EXTENDS Integers, Sequences, FiniteSets, TLC

VARIABLES
    maze,     \* the Maze object: [width, height, grid]
    stack,    \* generate_maze's stack of cells, or the frames of DFS._dfs_helper
              \* (a sequence, top last)
    pc,       \* where the modelled program is
    call,     \* the last operation invoked, with its arguments
    ret,      \* what that operation returned
    camera,   \* the Camera object: [vision_range, maze_width, maze_height]
    enemy,    \* the Enemy object's fields
    now,      \* time.time(), in quarters of a second
    player,   \* the Player object: [x, y, direction]
    game,     \* the Game object's fields, its list of enemies among them
    search    \* the collections of a find_path call that is under way

vars == <<maze, stack, pc, call, ret, camera, enemy, now, player, game, search>>

Abs(n) == IF n < 0 THEN -n ELSE n

NoCall == [op |-> "none"]

\* No find_path call is under way.
NoSearch == [done |-> TRUE]

\* The values of the objects a specification does not construct.
NoCamera == [vision_range |-> 0, maze_width |-> 0, maze_height |-> 0]
NoEnemy == [is_alive |-> TRUE]
NoPlayer == [x |-> 0, y |-> 0, direction |-> "down"]
NoGame == [state |-> "none"]

-----------------------------------------------------------------------------
(* Bounds of the model.                                                    *)

\* Mazes are generated for every width and height in MinDim..MaxDim.
MinDim == 2
MaxDim == 7

\* The pathfinders are run on every grid of at most MaxCells cells.
MaxCells == 9
SearchDim == 3

\* The camera is tried with every vision range in 0..MaxRange on grids of
\* every width and height in 1..MaxCamDim.
MaxRange == 3
MaxCamDim == 8

\* In a session the player's first MaxMoves moves are followed, and the
\* MaxMoves moves in which the score runs out; at most MaxSessions sessions
\* are started.
MaxMoves == 4
MaxSessions == 1

\* A pursuit is followed in every generated maze of at most MaxChaseCells
\* cells (7 x 5 and 5 x 7 included).
MaxChaseCells == 35

\* The clock of a game runs from 1 to MaxGameTime.
MaxGameTime == 7

\* The clock runs from 1 to MaxTime, in quarters of a second.
MaxTime == 5

-----------------------------------------------------------------------------
(* src/src/maze.py                                                         *)

\* Maze.__init__, line 21: a width x height grid of walls.
AllWalls(w, h) == [y \in 0..(h - 1) |-> [x \in 0..(w - 1) |-> 1]]

\* grid[y][x] = v
SetCell(grid, x, y, v) == [grid EXCEPT ![y][x] = v]

\* Maze.is_wall: out of range is a wall.
is_wall(m, x, y) ==
    IF ~(0 <= x /\ x < m.width /\ 0 <= y /\ y < m.height)
    THEN TRUE
    ELSE m.grid[y][x] = 1

\* A variant of is_path that answers True out of range, as is_wall does.
is_path_outside_true(m, x, y) ==
    IF ~(0 <= x /\ x < m.width /\ 0 <= y /\ y < m.height)
    THEN TRUE
    ELSE m.grid[y][x] = 0

\* Maze.is_path: out of range is not a path.
is_path(m, x, y) ==
    IF ~(0 <= x /\ x < m.width /\ 0 <= y /\ y < m.height)
    THEN FALSE
    ELSE m.grid[y][x] = 0

\* A variant of the directions that goes one step at a time.
directions_one_step == <<(<<0, -1>>), (<<1, 0>>), (<<0, 1>>), (<<-1, 0>>)>>

\* generate_maze, line 32: the four directions, two steps at a time.
directions == <<(<<0, -2>>), (<<2, 0>>), (<<0, 2>>), (<<-2, 0>>)>>

\* random.shuffle(directions): any order of the four directions.
Shuffles(s) ==
    {p \in [1..Len(s) -> 1..Len(s)] : \A i, j \in 1..Len(s) : p[i] = p[j] => i = j}

\* A variant of Carvable that only asks for a cell of the grid.
Carvable_in_range(m, nx, ny) ==
    /\ 0 <= nx /\ nx < m.width
    /\ 0 <= ny /\ ny < m.height
    /\ m.grid[ny][nx] = 1

\* generate_maze, lines 43-44: the cell two steps away is strictly inside the
\* grid and still a wall.
Carvable(m, nx, ny) ==
    /\ 0 < nx /\ nx < m.width - 1
    /\ 0 < ny /\ ny < m.height - 1
    /\ m.grid[ny][nx] = 1

\* A variant of FirstCarvable that tries the first shuffled direction only.
FirstCarvable_first_only(m, x, y, order) ==
    IF Carvable(m, x + directions[order[1]][1], y + directions[order[1]][2])
    THEN order[1]
    ELSE 0

\* generate_maze, lines 39-51: the index in the shuffled order of the first
\* direction that can be carved, 0 when there is none (found = False).
FirstCarvable(m, x, y, order) ==
    LET ok == {i \in 1..Len(directions) :
                  Carvable(m, x + directions[order[i]][1], y + directions[order[i]][2])}
    IN  IF ok = {} THEN 0
        ELSE order[CHOOSE i \in ok : \A j \in ok : i <= j]

\* A variant of Carve that forgets to open the wall between the two cells.
CarveNoWall(grid, x, y, dx, dy) ==
    SetCell(grid, x + dx, y + dy, 0)

\* generate_maze, lines 46-48: open the wall in between, then the next cell.
\* dx and dy are 0, 2 or -2, so dx // 2 is dx \div 2.
Carve(grid, x, y, dx, dy) ==
    SetCell(SetCell(grid, x + (dx \div 2), y + (dy \div 2), 0), x + dx, y + dy, 0)

\* Maze.__init__ up to generate_maze's line 29: the start cell (1,1) is a
\* path and lies on the stack.
MazeInit ==
    /\ \E w \in MinDim..MaxDim, h \in MinDim..MaxDim :
          maze = [width |-> w, height |-> h,
                  grid |-> SetCell(AllWalls(w, h), 1, 1, 0)]
    /\ stack = <<(<<1, 1>>)>>
    /\ pc = "generate"

\* generate_maze, lines 34-54: one iteration of the while loop.
GenerateStep ==
    /\ pc = "generate"
    /\ stack # <<>>
    /\ \E order \in Shuffles(directions) :
          LET x == stack[Len(stack)][1]
              y == stack[Len(stack)][2]
              d == FirstCarvable(maze, x, y, order)
          IN  IF d # 0
              THEN /\ maze' = [maze EXCEPT !.grid =
                                  Carve(maze.grid, x, y, directions[d][1], directions[d][2])]
                   /\ stack' = Append(stack, <<x + directions[d][1], y + directions[d][2]>>)
              ELSE /\ maze' = maze
                   /\ stack' = SubSeq(stack, 1, Len(stack) - 1)
    /\ UNCHANGED <<pc, call, ret, camera, enemy, now, player, game, search>>

\* generate_maze, line 34: the loop ends when the stack is empty.
GenerateDone ==
    /\ pc = "generate"
    /\ stack = <<>>
    /\ pc' = "generated"
    /\ UNCHANGED <<maze, stack, call, ret, camera, enemy, now, player, game, search>>

InitMaze ==
    /\ MazeInit
    /\ call = NoCall
    /\ ret = FALSE
    /\ camera = NoCamera
    /\ enemy = NoEnemy
    /\ now = 0
    /\ player = NoPlayer
    /\ game = NoGame
    /\ search = NoSearch

NextMaze == GenerateStep \/ GenerateDone

SpecMaze == InitMaze /\ [][NextMaze]_vars

-----------------------------------------------------------------------------
(* src/src/pathfinding.py                                                  *)

\* Python's None, where a position is expected.
None == <<>>

Reverse(s) == [i \in 1..Len(s) |-> s[Len(s) + 1 - i]]

\* PathFinder._heuristic: the Manhattan distance.
heuristic(pos1, pos2) == Abs(pos1[1] - pos2[1]) + Abs(pos1[2] - pos2[2])

\* A variant of the neighbour list whose last entry steps diagonally.
neighbors_diagonal(current) ==
    << <<current[1], current[2] - 1>>, <<current[1], current[2] + 1>>,
       <<current[1] - 1, current[2]>>, <<current[1] + 1, current[2] + 1>> >>

\* The neighbour lists of lines 102-107, 187-192 and 277-282: up, down,
\* left, right.
neighbors(current) ==
    << <<current[1], current[2] - 1>>, <<current[1], current[2] + 1>>,
       <<current[1] - 1, current[2]>>, <<current[1] + 1, current[2]>> >>

\* Node.__init__: f_cost = g_cost + h_cost, no parent.
Node(g_cost, h_cost) ==
    [g_cost |-> g_cost, h_cost |-> h_cost, f_cost |-> g_cost + h_cost, parent |-> None]

\* Node.__lt__ on the nodes at positions a and b: the open set holds
\* references to the nodes of node_dict, so the costs compared are the ones
\* node_dict holds at the time of the comparison.
Lt(node_dict, a, b) == node_dict[a].f_cost < node_dict[b].f_cost

\* heapq._siftdown(heap, startpos, pos), the loop after newitem = heap[pos].
\* Positions in the heap are counted from 0; heap[i + 1] is Python's heap[i].
RECURSIVE siftdown_loop(_, _, _, _, _)
siftdown_loop(heap, node_dict, newitem, startpos, pos) ==
    IF pos > startpos
    THEN LET parentpos == (pos - 1) \div 2
             parent == heap[parentpos + 1]
         IN  IF Lt(node_dict, newitem, parent)
             THEN siftdown_loop([heap EXCEPT ![pos + 1] = parent],
                                node_dict, newitem, startpos, parentpos)
             ELSE [heap EXCEPT ![pos + 1] = newitem]
    ELSE [heap EXCEPT ![pos + 1] = newitem]

siftdown(heap, node_dict, startpos, pos) ==
    siftdown_loop(heap, node_dict, heap[pos + 1], startpos, pos)

\* heapq._siftup(heap, pos), the loop that moves the smaller child up until a
\* leaf is reached, then the _siftdown of newitem from there.
RECURSIVE siftup_loop(_, _, _, _, _)
siftup_loop(heap, node_dict, newitem, startpos, pos) ==
    LET endpos == Len(heap)
        childpos == 2 * pos + 1
        rightpos == childpos + 1
    IN  IF childpos < endpos
        THEN LET c == IF rightpos < endpos
                         /\ ~Lt(node_dict, heap[childpos + 1], heap[rightpos + 1])
                      THEN rightpos ELSE childpos
             IN  siftup_loop([heap EXCEPT ![pos + 1] = heap[c + 1]],
                             node_dict, newitem, startpos, c)
        ELSE siftdown([heap EXCEPT ![pos + 1] = newitem], node_dict, startpos, pos)

siftup(heap, node_dict, pos) ==
    siftup_loop(heap, node_dict, heap[pos + 1], pos, pos)

\* heapq.heappush(open_set, node), lines 86 and 129.
heappush(heap, node_dict, item) ==
    siftdown(Append(heap, item), node_dict, 0, Len(heap))

\* A variant of heappop that leaves the node it returns in the heap.
heappop_peek(heap, node_dict) ==
    [item |-> heap[1], heap |-> heap]

\* heapq.heappop(open_set), line 93: the node returned and the heap left.
heappop(heap, node_dict) ==
    LET lastelt == heap[Len(heap)]
        rest == SubSeq(heap, 1, Len(heap) - 1)
    IN  IF rest # <<>>
        THEN [item |-> rest[1],
              heap |-> siftup([rest EXCEPT ![1] = lastelt], node_dict, 0)]
        ELSE [item |-> lastelt, heap |-> rest]

\* AStar._reconstruct_path: follow the parents from the goal node, then
\* reverse.  w is the node the while loop of lines 148-150 has come to and
\* the list it has built; four passes are written out to a level of the
\* recursion.
astar_parent_pass(node_dict, w) ==
    IF w.at = None THEN w
    ELSE [at |-> node_dict[w.at].parent, list |-> Append(w.list, w.at)]

RECURSIVE astar_parent_walk(_, _)
astar_parent_walk(node_dict, w) ==
    IF w.at = None THEN w.list
    ELSE astar_parent_walk(node_dict,
             astar_parent_pass(node_dict,
             astar_parent_pass(node_dict,
             astar_parent_pass(node_dict,
             astar_parent_pass(node_dict, w)))))

astar_parents(node_dict, current) ==
    astar_parent_walk(node_dict, [at |-> current, list |-> <<>>])

\* A variant that forgets to reverse the list.
astar_reconstruct_unreversed(node_dict, node) == astar_parents(node_dict, node)

astar_reconstruct_path(node_dict, node) == Reverse(astar_parents(node_dict, node))

\* AStar.find_path, lines 114-129: what the loop body does for one
\* neighbour that is neither closed nor a wall.
astar_visit(goal, current, neighbor_pos, st) ==
    LET g_cost == st.node_dict[current].g_cost + 1
        h_cost == heuristic(neighbor_pos, goal)
    IN  IF neighbor_pos \in DOMAIN st.node_dict
        THEN IF g_cost < st.node_dict[neighbor_pos].g_cost
             THEN [st EXCEPT !.node_dict[neighbor_pos] =
                       [g_cost |-> g_cost, h_cost |-> @.h_cost,
                        f_cost |-> g_cost + h_cost, parent |-> current]]
             ELSE st
        ELSE LET nd == st.node_dict @@
                          (neighbor_pos :> [Node(g_cost, h_cost) EXCEPT !.parent = current])
             IN  [st EXCEPT !.node_dict = nd,
                            !.open_set = heappush(st.open_set, nd, neighbor_pos)]

\* AStar.find_path, lines 109-129: the for loop over the neighbours, from
\* the i-th on.
RECURSIVE astar_neighbors(_, _, _, _, _)
astar_neighbors(m, goal, current, st, i) ==
    IF i > 4 THEN st
    ELSE LET neighbor_pos == neighbors(current)[i]
         IN  IF neighbor_pos \in st.closed_set
                \/ is_wall(m, neighbor_pos[1], neighbor_pos[2])
             THEN astar_neighbors(m, goal, current, st, i + 1)
             ELSE astar_neighbors(m, goal, current,
                                  astar_visit(goal, current, neighbor_pos, st), i + 1)

\* AStar.find_path, lines 81-89: the search state before the loop.
astar_start(start, goal) ==
    LET nd == (start :> Node(0, heuristic(start, goal)))
    IN  [open_set |-> heappush(<<>>, nd, start), closed_set |-> {},
         node_dict |-> nd, done |-> FALSE, path |-> <<>>]

\* AStar.find_path, lines 92-129: one iteration of the while loop.
astar_step(m, goal, st) ==
    LET popped == heappop(st.open_set, st.node_dict)
        current == popped.item
    IN  IF current = goal
        THEN [st EXCEPT !.open_set = popped.heap, !.done = TRUE,
                        !.path = astar_reconstruct_path(st.node_dict, current)]
        ELSE astar_neighbors(m, goal, current,
                             [st EXCEPT !.open_set = popped.heap,
                                        !.closed_set = @ \cup {current}], 1)

\* AStar.find_path, lines 91-98 and 132: whether the while loop is over,
\* what find_path returns then, and one pass of the loop, which leaves a
\* search that is over as it is.
astar_over(st) == st.done \/ st.open_set = <<>>
astar_result(st) == IF st.done THEN st.path ELSE <<>>
astar_pass(m, goal, st) == IF astar_over(st) THEN st ELSE astar_step(m, goal, st)

\* AStar.find_path, lines 91-132: the while loop; the empty list when the
\* open set runs empty.  Eight passes are written out to a level of the
\* recursion; a pass leaves a search that is over as it is.
RECURSIVE astar_loop(_, _, _)
astar_loop(m, goal, st) ==
    IF astar_over(st) THEN astar_result(st)
    ELSE astar_loop(m, goal,
             astar_pass(m, goal,
             astar_pass(m, goal,
             astar_pass(m, goal,
             astar_pass(m, goal,
             astar_pass(m, goal,
             astar_pass(m, goal,
             astar_pass(m, goal,
             astar_pass(m, goal, st)))))))))

\* A variant of the endpoint check that tests the goal only.
endpoints_valid_goal_only(m, start, goal) ==
    is_path(m, goal[1], goal[2])

\* Lines 77, 171 and 244: both endpoints must be path cells.
endpoints_valid(m, start, goal) ==
    is_path(m, start[1], start[2]) /\ is_path(m, goal[1], goal[2])

\* AStar.find_path
AStar_find_path(m, start, goal) ==
    IF ~endpoints_valid(m, start, goal) THEN <<>>
    ELSE astar_loop(m, goal, astar_start(start, goal))

\* BFS._reconstruct_path: follow the parent dictionary from the goal, then
\* reverse; the while loop of lines 221-223 as in astar_parents.
bfs_parent_pass(parent, w) ==
    IF w.at = None THEN w
    ELSE [at |-> parent[w.at], list |-> Append(w.list, w.at)]

RECURSIVE bfs_parent_walk(_, _)
bfs_parent_walk(parent, w) ==
    IF w.at = None THEN w.list
    ELSE bfs_parent_walk(parent,
             bfs_parent_pass(parent,
             bfs_parent_pass(parent,
             bfs_parent_pass(parent,
             bfs_parent_pass(parent, w)))))

bfs_parents(parent, current) ==
    bfs_parent_walk(parent, [at |-> current, list |-> <<>>])

bfs_reconstruct_path(parent, goal) == Reverse(bfs_parents(parent, goal))

\* BFS.find_path, lines 194-201: the for loop over the neighbours, from the
\* i-th on.
RECURSIVE bfs_neighbors(_, _, _, _)
bfs_neighbors(m, current, st, i) ==
    IF i > 4 THEN st
    ELSE LET neighbor_pos == neighbors(current)[i]
         IN  IF neighbor_pos \in st.visited
                \/ is_wall(m, neighbor_pos[1], neighbor_pos[2])
             THEN bfs_neighbors(m, current, st, i + 1)
             ELSE bfs_neighbors(m, current,
                      [st EXCEPT !.visited = @ \cup {neighbor_pos},
                                 !.parent = @ @@ (neighbor_pos :> current),
                                 !.queue = Append(@, neighbor_pos)],
                      i + 1)

\* BFS.find_path, lines 175-177: the search state before the loop.
bfs_start(start) ==
    [queue |-> <<start>>, visited |-> {start}, parent |-> (start :> None),
     done |-> FALSE, path |-> <<>>]

\* BFS.find_path, lines 180-201: one iteration of the while loop.
bfs_step(m, goal, st) ==
    LET current == Head(st.queue)
    IN  IF current = goal
        THEN [st EXCEPT !.queue = Tail(@), !.done = TRUE,
                        !.path = bfs_reconstruct_path(st.parent, goal)]
        ELSE bfs_neighbors(m, current, [st EXCEPT !.queue = Tail(@)], 1)

\* BFS.find_path, lines 179-185 and 204: whether the while loop is over,
\* what find_path returns then, and one pass of the loop.
bfs_over(st) == st.done \/ st.queue = <<>>
bfs_result(st) == IF st.done THEN st.path ELSE <<>>
bfs_pass(m, goal, st) == IF bfs_over(st) THEN st ELSE bfs_step(m, goal, st)

\* BFS.find_path, lines 179-204: the while loop, eight passes to a level
\* of the recursion as in astar_loop.
RECURSIVE bfs_loop(_, _, _)
bfs_loop(m, goal, st) ==
    IF bfs_over(st) THEN bfs_result(st)
    ELSE bfs_loop(m, goal,
             bfs_pass(m, goal,
             bfs_pass(m, goal,
             bfs_pass(m, goal,
             bfs_pass(m, goal,
             bfs_pass(m, goal,
             bfs_pass(m, goal,
             bfs_pass(m, goal,
             bfs_pass(m, goal, st)))))))))

\* BFS.find_path
BFS_find_path(m, start, goal) ==
    IF ~endpoints_valid(m, start, goal) THEN <<>>
    ELSE bfs_loop(m, goal, bfs_start(start))

\* DFS._dfs_helper is followed with its call stack written out: the two
\* collections the recursion shares, st = [found, visited, path], and the
\* frames of the calls under way.

\* DFS.find_path, lines 247-248: visited and path before the first call of
\* _dfs_helper.
dfs_start == [found |-> FALSE, visited |-> {}, path |-> <<>>]

\* One frame of _dfs_helper: its argument current and how far it has come,
\* 0 on entry, i in 1..4 before the i-th neighbour, 5 after the loop.
Frame(current, i) == [current |-> current, i |-> i]

\* A variant of the step in which the for loop ends with the first
\* neighbour it descends into, found or not.
dfs_step_first_only(m, goal, st, stk) ==
    LET top == stk[Len(stk)]
        current == top.current
        entered == [st EXCEPT !.visited = @ \cup {current},
                              !.path = Append(@, current)]
        next == [stk EXCEPT ![Len(stk)].i = @ + 1]
    IN  IF top.i = 0
        THEN IF current = goal
             THEN [returns |-> TRUE, ret |-> entered.path,
                   search |-> [entered EXCEPT !.found = TRUE], stack |-> stk]
             ELSE [returns |-> FALSE, ret |-> <<>>, search |-> entered,
                   stack |-> next]
        ELSE IF top.i <= 4
        THEN LET neighbor_pos == neighbors(current)[top.i]
             IN  [returns |-> FALSE, ret |-> <<>>, search |-> st,
                  stack |-> IF neighbor_pos \in st.visited
                               \/ is_wall(m, neighbor_pos[1], neighbor_pos[2])
                            THEN next
                            ELSE Append([stk EXCEPT ![Len(stk)].i = 5],
                                        Frame(neighbor_pos, 0))]
        ELSE [returns |-> Len(stk) = 1, ret |-> <<>>,
              search |-> [st EXCEPT !.path = SubSeq(@, 1, Len(@) - 1)],
              stack |-> SubSeq(stk, 1, Len(stk) - 1)]

\* DFS._dfs_helper, lines 268-294, one step of the frame on top of the call
\* stack stk: the entry (lines 268-273), one neighbour of the for loop (lines
\* 284-290), or the backtracking (lines 292-294).  A call that returns True
\* makes every caller return True (line 290), and find_path returns the
\* path (line 251); when the first call returns False find_path returns the
\* empty list (line 253).
dfs_step(m, goal, st, stk) ==
    LET top == stk[Len(stk)]
        current == top.current
        entered == [st EXCEPT !.visited = @ \cup {current},
                              !.path = Append(@, current)]
        next == [stk EXCEPT ![Len(stk)].i = @ + 1]
    IN  IF top.i = 0
        THEN IF current = goal
             THEN [returns |-> TRUE, ret |-> entered.path,
                   search |-> [entered EXCEPT !.found = TRUE], stack |-> stk]
             ELSE [returns |-> FALSE, ret |-> <<>>, search |-> entered,
                   stack |-> next]
        ELSE IF top.i <= 4
        THEN LET neighbor_pos == neighbors(current)[top.i]
             IN  [returns |-> FALSE, ret |-> <<>>, search |-> st,
                  stack |-> IF neighbor_pos \in st.visited
                               \/ is_wall(m, neighbor_pos[1], neighbor_pos[2])
                            THEN next
                            ELSE Append(next, Frame(neighbor_pos, 0))]
        ELSE [returns |-> Len(stk) = 1, ret |-> <<>>,
              search |-> [st EXCEPT !.path = SubSeq(@, 1, Len(@) - 1)],
              stack |-> SubSeq(stk, 1, Len(stk) - 1)]

\* One step of the search, which leaves a search that has returned as it
\* is.
dfs_pass(m, goal, r) ==
    IF r.returns THEN r ELSE dfs_step(m, goal, r.search, r.stack)

\* DFS.find_path, lines 250-253: the call of _dfs_helper carried through to
\* its return, twelve steps to a level of the recursion.
RECURSIVE dfs_loop(_, _, _)
dfs_loop(m, goal, r) ==
    IF r.returns THEN r.ret
    ELSE dfs_loop(m, goal,
             dfs_pass(m, goal,
             dfs_pass(m, goal,
             dfs_pass(m, goal,
             dfs_pass(m, goal,
             dfs_pass(m, goal,
             dfs_pass(m, goal,
             dfs_pass(m, goal,
             dfs_pass(m, goal,
             dfs_pass(m, goal,
             dfs_pass(m, goal,
             dfs_pass(m, goal,
             dfs_pass(m, goal, r)))))))))))))

\* DFS.find_path
DFS_find_path(m, start, goal) ==
    IF ~endpoints_valid(m, start, goal) THEN <<>>
    ELSE dfs_loop(m, goal, [returns |-> FALSE, ret |-> <<>>, search |-> dfs_start,
                            stack |-> <<Frame(start, 0)>>])

\* A variant of find_path that finds nothing when the start is the goal.
find_path_not_to_itself(algorithm, m, start, goal) ==
    IF start = goal THEN <<>>
    ELSE IF algorithm = "BFS" THEN BFS_find_path(m, start, goal)
    ELSE IF algorithm = "DFS" THEN DFS_find_path(m, start, goal)
    ELSE AStar_find_path(m, start, goal)

\* The strategy an algorithm name selects (Enemy.set_maze): A* unless the
\* name is "BFS" or "DFS".
find_path(algorithm, m, start, goal) ==
    IF algorithm = "BFS" THEN BFS_find_path(m, start, goal)
    ELSE IF algorithm = "DFS" THEN DFS_find_path(m, start, goal)
    ELSE AStar_find_path(m, start, goal)

-----------------------------------------------------------------------------
(* Graph notions the properties are stated with.                           *)

Cells(m) == {c \in (0..(m.width - 1)) \X (0..(m.height - 1)) : TRUE}

PathCells(m) == {c \in Cells(m) : m.grid[c[2]][c[1]] = 0}

Adjacent(a, b) == Abs(a[1] - b[1]) + Abs(a[2] - b[2]) = 1

\* The cells within n steps of the cells of S, moving between adjacent path
\* cells only.
RECURSIVE Flood(_, _, _)
Flood(m, S, n) ==
    IF n = 0 THEN S
    ELSE LET N == S \cup {c \in PathCells(m) : \E s \in S : Adjacent(c, s)}
         IN  IF N = S THEN S ELSE Flood(m, N, n - 1)

\* The path cells that can be reached from path cell s.
ReachableFrom(m, s) ==
    IF s \in PathCells(m) THEN Flood(m, {s}, Cardinality(Cells(m))) ELSE {}

\* The number of steps of a shortest walk from s to g over adjacent path
\* cells, for g reachable from s.
Distance(m, s, g) ==
    CHOOSE n \in 0..Cardinality(Cells(m)) :
        /\ g \in Flood(m, {s}, n)
        /\ n > 0 => g \notin Flood(m, {s}, n - 1)

NoRepeats(s) == \A i, j \in 1..Len(s) : s[i] = s[j] => i = j

Odd(n) == n % 2 = 1

-----------------------------------------------------------------------------
(* Calls of the grid queries and of the pathfinders on arbitrary grids.    *)

\* The grid whose rows, top row first, are the sequences of rows.
GridOf(rows) ==
    [width |-> Len(rows[1]), height |-> Len(rows),
     grid |-> [y \in 0..(Len(rows) - 1) |->
                  [x \in 0..(Len(rows[1]) - 1) |-> rows[y + 1][x + 1]]]]

\* Every grid of at least two columns and two rows and at most MaxCells
\* cells.
SmallGrids ==
    UNION {{[width |-> d[1], height |-> d[2], grid |-> g] :
                g \in [0..(d[2] - 1) -> [0..(d[1] - 1) -> {0, 1}]]} :
           d \in {e \in (2..MaxCells) \X (2..MaxCells) : e[1] * e[2] <= MaxCells}}

\* Larger grids with many cycles: an open 4 x 4 room, a 5 x 5 grid on which
\* A* lowers the cost of a node that is already in its open set, and a
\* 4 x 6 grid with two routes of different length from <<2, 5>> to <<1, 0>>.
FixtureGrids ==
    { GridOf(<< <<0, 0, 0, 0>>,
                <<0, 0, 0, 0>>,
                <<0, 0, 0, 0>>,
                <<0, 0, 0, 0>> >>),
      GridOf(<< <<0, 0, 0, 0, 0>>,
                <<0, 1, 0, 0, 0>>,
                <<1, 0, 0, 0, 0>>,
                <<0, 0, 0, 0, 0>>,
                <<0, 1, 1, 0, 0>> >>),
      GridOf(<< <<1, 0, 0, 0>>,
                <<1, 1, 1, 0>>,
                <<1, 0, 0, 0>>,
                <<0, 0, 0, 0>>,
                <<0, 0, 1, 0>>,
                <<0, 0, 0, 0>> >>) }

\* One coordinate pair beyond each of the four edges of the grid.
Outside(m) == {<<-1, 0>>, <<m.width, 0>>, <<0, -1>>, <<0, m.height>>}

\* Coordinate pairs in and around the grid, negative and too large ones
\* included.
Probes(m) == ((-2)..(m.width + 1)) \X ((-2)..(m.height + 1))

Algorithms == {"A*", "BFS", "DFS"}

\* pathfinder.find_path(start, goal) on the grid, for any strategy and any
\* two coordinate pairs, inside the grid or not.
FindPath ==
    /\ pc = "ready"
    /\ \E algorithm \in Algorithms, start \in Cells(maze) \cup Outside(maze),
          goal \in Cells(maze) \cup Outside(maze) :
          /\ call' = [op |-> "find_path", algorithm |-> algorithm,
                      start |-> start, goal |-> goal]
          /\ ret' = find_path(algorithm, maze, start, goal)
    /\ pc' = "returned"
    /\ UNCHANGED <<maze, stack, camera, enemy, now, player, game, search>>

\* maze.is_wall(x, y)
IsWall ==
    /\ pc = "ready"
    /\ \E c \in Probes(maze) :
          /\ call' = [op |-> "is_wall", x |-> c[1], y |-> c[2]]
          /\ ret' = is_wall(maze, c[1], c[2])
    /\ pc' = "returned"
    /\ UNCHANGED <<maze, stack, camera, enemy, now, player, game, search>>

\* maze.is_path(x, y)
IsPath ==
    /\ pc = "ready"
    /\ \E c \in Probes(maze) :
          /\ call' = [op |-> "is_path", x |-> c[1], y |-> c[2]]
          /\ ret' = is_path(maze, c[1], c[2])
    /\ pc' = "returned"
    /\ UNCHANGED <<maze, stack, camera, enemy, now, player, game, search>>

InitPath ==
    /\ maze \in SmallGrids \cup FixtureGrids
    /\ stack = <<>>
    /\ pc = "ready"
    /\ call = NoCall
    /\ ret = FALSE
    /\ camera = NoCamera
    /\ enemy = NoEnemy
    /\ now = 0
    /\ player = NoPlayer
    /\ game = NoGame
    /\ search = NoSearch

NextPath == FindPath \/ IsWall \/ IsPath

SpecPath == InitPath /\ [][NextPath]_vars

-----------------------------------------------------------------------------
(* find_path taken one iteration at a time: the while loops of A* and BFS  *)
(* and the calls and returns of DFS._dfs_helper.                           *)

\* Every SearchDim x SearchDim grid, and the larger grids above.
SearchGrids ==
    {[width |-> SearchDim, height |-> SearchDim, grid |-> g] :
        g \in [0..(SearchDim - 1) -> [0..(SearchDim - 1) -> {0, 1}]]}
    \cup FixtureGrids

\* pathfinder.find_path(start, goal), lines 77, 171 and 244 and the
\* initialisation that follows: the empty list at once unless both
\* endpoints are path cells.
StartSearch ==
    /\ pc = "ready"
    /\ \E algorithm \in Algorithms, start \in Cells(maze), goal \in Cells(maze) :
          /\ call' = [op |-> "find_path", algorithm |-> algorithm,
                      start |-> start, goal |-> goal]
          /\ IF ~endpoints_valid(maze, start, goal)
             THEN /\ pc' = "returned"
                  /\ ret' = <<>>
                  /\ UNCHANGED <<search, stack>>
             ELSE /\ pc' = "searching"
                  /\ search' = IF algorithm = "BFS" THEN bfs_start(start)
                               ELSE IF algorithm = "DFS" THEN dfs_start
                               ELSE astar_start(start, goal)
                  /\ stack' = IF algorithm = "DFS" THEN <<Frame(start, 0)>> ELSE <<>>
                  /\ UNCHANGED ret
    /\ UNCHANGED <<maze, camera, enemy, now, player, game>>

\* AStar.find_path, lines 91-132: the test of the while loop and one
\* iteration.  The result says whether find_path returns, what it returns,
\* and the collections afterwards.
astar_iteration(m, goal, st) ==
    IF st.open_set = <<>>
    THEN [returns |-> TRUE, ret |-> <<>>, search |-> st, stack |-> <<>>]
    ELSE LET after == astar_step(m, goal, st)
         IN  [returns |-> after.done, ret |-> after.path, search |-> after,
              stack |-> <<>>]

\* BFS.find_path, lines 179-204: the test of the while loop and one
\* iteration.
bfs_iteration(m, goal, st) ==
    IF st.queue = <<>>
    THEN [returns |-> TRUE, ret |-> <<>>, search |-> st, stack |-> <<>>]
    ELSE LET after == bfs_step(m, goal, st)
         IN  [returns |-> after.done, ret |-> after.path, search |-> after,
              stack |-> <<>>]

\* One step of the search the strategy makes from the collections st and
\* the call stack stk.
search_step(algorithm, m, goal, st, stk) ==
    IF algorithm = "BFS" THEN bfs_iteration(m, goal, st)
    ELSE IF algorithm = "DFS" THEN dfs_step(m, goal, st, stk)
    ELSE astar_iteration(m, goal, st)

\* The search in progress makes one step; when find_path returns, its
\* local collections are gone.
Continue ==
    LET r == search_step(call.algorithm, maze, call.goal, search, stack)
    IN  IF r.returns
        THEN /\ ret' = r.ret
             /\ pc' = "returned"
             /\ search' = NoSearch
             /\ stack' = <<>>
        ELSE /\ search' = r.search
             /\ stack' = r.stack
             /\ UNCHANGED <<ret, pc>>

\* One iteration of the loop of AStar.find_path.
AStarStep ==
    /\ pc = "searching"
    /\ call.algorithm \notin {"BFS", "DFS"}
    /\ Continue
    /\ UNCHANGED <<maze, call, camera, enemy, now, player, game>>

\* One iteration of the loop of BFS.find_path.
BfsStep ==
    /\ pc = "searching"
    /\ call.algorithm = "BFS"
    /\ Continue
    /\ UNCHANGED <<maze, call, camera, enemy, now, player, game>>

\* One step of DFS._dfs_helper.
DfsStep ==
    /\ pc = "searching"
    /\ call.algorithm = "DFS"
    /\ Continue
    /\ UNCHANGED <<maze, call, camera, enemy, now, player, game>>

InitSearch ==
    /\ maze \in SearchGrids
    /\ stack = <<>>
    /\ pc = "ready"
    /\ call = NoCall
    /\ ret = None
    /\ camera = NoCamera
    /\ enemy = NoEnemy
    /\ now = 0
    /\ player = NoPlayer
    /\ game = NoGame
    /\ search = NoSearch

NextSearch == StartSearch \/ AStarStep \/ BfsStep \/ DfsStep

SpecSearch == InitSearch /\ [][NextSearch]_vars

-----------------------------------------------------------------------------
(* src/src/camera.py                                                       *)

\* A variant of get_visible_tiles without the distance test: a square window.
get_visible_tiles_square(cam, player_x, player_y) ==
    {<<player_x + d[1], player_y + d[2]>> :
        d \in {e \in ((-cam.vision_range)..cam.vision_range)
                        \X ((-cam.vision_range)..cam.vision_range) :
                  /\ 0 <= player_x + e[1] /\ player_x + e[1] < cam.maze_width
                  /\ 0 <= player_y + e[2] /\ player_y + e[2] < cam.maze_height}}

\* A variant of get_visible_tiles whose loops stop one offset short, as
\* range(-vision_range, vision_range) would.
get_visible_tiles_half_open(cam, player_x, player_y) ==
    {<<player_x + d[1], player_y + d[2]>> :
        d \in {e \in ((-cam.vision_range)..(cam.vision_range - 1))
                        \X ((-cam.vision_range)..(cam.vision_range - 1)) :
                  /\ Abs(e[1]) + Abs(e[2]) <= cam.vision_range
                  /\ 0 <= player_x + e[1] /\ player_x + e[1] < cam.maze_width
                  /\ 0 <= player_y + e[2] /\ player_y + e[2] < cam.maze_height}}

\* Camera.get_visible_tiles: the offsets (dx, dy) of the two nested loops
\* that pass the distance test and the bounds test, added to the player's
\* position.
get_visible_tiles(cam, player_x, player_y) ==
    {<<player_x + d[1], player_y + d[2]>> :
        d \in {e \in ((-cam.vision_range)..cam.vision_range)
                        \X ((-cam.vision_range)..cam.vision_range) :
                  /\ Abs(e[1]) + Abs(e[2]) <= cam.vision_range
                  /\ 0 <= player_x + e[1] /\ player_x + e[1] < cam.maze_width
                  /\ 0 <= player_y + e[2] /\ player_y + e[2] < cam.maze_height}}

\* Camera.__init__
Camera(vision_range, maze_width, maze_height) ==
    [vision_range |-> vision_range, maze_width |-> maze_width,
     maze_height |-> maze_height]

\* camera.get_visible_tiles(player_x, player_y), for a player anywhere on the
\* grid or one step outside it.
GetVisibleTiles ==
    /\ pc = "ready"
    /\ \E player_x \in (-1)..camera.maze_width, player_y \in (-1)..camera.maze_height :
          /\ call' = [op |-> "get_visible_tiles", x |-> player_x, y |-> player_y]
          /\ ret' = get_visible_tiles(camera, player_x, player_y)
    /\ pc' = "returned"
    /\ UNCHANGED <<maze, stack, camera, enemy, now, player, game, search>>

InitCamera ==
    /\ \E r \in 0..MaxRange, w \in 1..MaxCamDim, h \in 1..MaxCamDim :
          camera = Camera(r, w, h)
    /\ maze = [width |-> 0, height |-> 0, grid |-> <<>>]
    /\ stack = <<>>
    /\ pc = "ready"
    /\ call = NoCall
    /\ ret = FALSE
    /\ enemy = NoEnemy
    /\ now = 0
    /\ player = NoPlayer
    /\ game = NoGame
    /\ search = NoSearch

NextCamera == GetVisibleTiles

SpecCamera == InitCamera /\ [][NextCamera]_vars

-----------------------------------------------------------------------------
(* src/src/enemy.py                                                        *)

\* Enemy.__init__: the vision range, the recalculation interval, the length
\* of the hit animation (0.5 s) and the default move delay (0.5 s), the two
\* durations in quarters of a second.
VisionRange == 8
RecalcInterval == 1
HitAnimationTime == 2
DefaultMoveDelay == 2

\* Enemy.__init__ at time t; the sprite, the colour and the tile size play
\* no part in the behaviour.  pathfinder is the name of the strategy object,
\* "None" before set_maze.
Enemy(x, y, move_delay, algorithm, t) ==
    [x |-> x, y |-> y, direction |-> "down", is_alive |-> TRUE,
     move_delay |-> move_delay, last_move_time |-> t,
     pathfinder |-> "None", path |-> <<>>, path_index |-> 0,
     recalc_interval |-> RecalcInterval, moves_since_recalc |-> 0,
     algorithm |-> algorithm,
     vision_range |-> VisionRange, player_detected |-> FALSE,
     hit_animation_time |-> HitAnimationTime, is_hit |-> FALSE,
     hit_start_time |-> 0]

\* Enemy.set_maze: the pathfinder for the configured algorithm, A* for an
\* unknown name.  The maze it is bound to is the one maze of the model.
set_maze(e) ==
    [e EXCEPT !.pathfinder = IF e.algorithm \in {"A*", "BFS", "DFS"}
                             THEN e.algorithm ELSE "A*"]

\* A variant of can_see_player that does not see the player at the very
\* edge of the vision range.
can_see_player_strict(e, player_x, player_y) ==
    Abs(e.x - player_x) + Abs(e.y - player_y) < e.vision_range

\* Enemy.can_see_player
can_see_player(e, player_x, player_y) ==
    Abs(e.x - player_x) + Abs(e.y - player_y) <= e.vision_range

\* A variant of _can_move_now that lets every tick through.
can_move_now_always(e, t) ==
    [enemy |-> [e EXCEPT !.last_move_time = t], ret |-> TRUE]

\* Enemy._can_move_now at time t: the answer, and the enemy with
\* last_move_time set when the answer is True.
can_move_now(e, t) ==
    IF t - e.last_move_time >= e.move_delay
    THEN [enemy |-> [e EXCEPT !.last_move_time = t], ret |-> TRUE]
    ELSE [enemy |-> e, ret |-> FALSE]

\* A variant of hit without the test for a dead enemy.
hit_unguarded(e, t) ==
    [enemy |-> [e EXCEPT !.is_alive = FALSE, !.is_hit = TRUE, !.hit_start_time = t],
     ret |-> TRUE]

\* Enemy.hit at time t: the answer and the enemy afterwards.
hit(e, t) ==
    IF ~e.is_alive
    THEN [enemy |-> e, ret |-> FALSE]
    ELSE [enemy |-> [e EXCEPT !.is_alive = FALSE, !.is_hit = TRUE,
                              !.hit_start_time = t],
          ret |-> TRUE]

\* A variant of is_hit_animation_finished that waits for more than the
\* animation time.
is_hit_animation_finished_late(e, t) ==
    IF e.is_hit /\ t - e.hit_start_time > e.hit_animation_time
    THEN [enemy |-> [e EXCEPT !.is_hit = FALSE], ret |-> TRUE]
    ELSE [enemy |-> e, ret |-> FALSE]

\* A variant of is_hit_animation_finished that does not wait.
is_hit_animation_finished_at_once(e, t) ==
    IF e.is_hit
    THEN [enemy |-> [e EXCEPT !.is_hit = FALSE], ret |-> TRUE]
    ELSE [enemy |-> e, ret |-> FALSE]

\* Enemy.is_hit_animation_finished at time t: the answer and the enemy
\* afterwards.
is_hit_animation_finished(e, t) ==
    IF e.is_hit /\ t - e.hit_start_time >= e.hit_animation_time
    THEN [enemy |-> [e EXCEPT !.is_hit = FALSE], ret |-> TRUE]
    ELSE [enemy |-> e, ret |-> FALSE]

\* A variant of reset_position that keeps the stored path and its cursor.
reset_position_keeps_path(e, x, y) ==
    [e EXCEPT !.x = x, !.y = y, !.is_alive = TRUE, !.is_hit = FALSE]

\* Enemy.reset_position
reset_position(e, x, y) ==
    [e EXCEPT !.x = x, !.y = y, !.is_alive = TRUE, !.is_hit = FALSE,
              !.path = <<>>, !.path_index = 0, !.moves_since_recalc = 0]

\* Enemy._update_direction
update_direction(e, dx, dy) ==
    IF dy < 0 THEN [e EXCEPT !.direction = "up"]
    ELSE IF dy > 0 THEN [e EXCEPT !.direction = "down"]
    ELSE IF dx < 0 THEN [e EXCEPT !.direction = "left"]
    ELSE IF dx > 0 THEN [e EXCEPT !.direction = "right"]
    ELSE e

\* A variant of the test of lines 143-144 that asks for a new path on every
\* pursuing tick.
needs_path_every_tick(e) == e.pathfinder # "None"

\* A variant of the test that keeps a stored path until reset_position
\* empties it.
needs_path_only_when_empty(e) == e.path = <<>> /\ e.pathfinder # "None"

\* Enemy._chase_player, lines 143-144: whether the pathfinder is invoked.
needs_path(e) ==
    (e.moves_since_recalc >= e.recalc_interval \/ e.path = <<>>)
    /\ e.pathfinder # "None"

\* Enemy._chase_player, lines 143-147: a new path when the stored one is
\* used up or empty.
chase_recalculate(e, player_pos, m) ==
    IF needs_path(e)
    THEN [e EXCEPT !.path = find_path(e.pathfinder, m, <<e.x, e.y>>, player_pos),
                   !.path_index = 0, !.moves_since_recalc = 0]
    ELSE e

\* A variant of the step that leaves moves_since_recalc as it is.
chase_step_keeps_counter(e, m) ==
    IF e.path # <<>> /\ e.path_index < Len(e.path) - 1
    THEN LET next_pos == e.path[e.path_index + 2]
         IN  IF is_path(m, next_pos[1], next_pos[2])
             THEN [update_direction([e EXCEPT !.x = next_pos[1], !.y = next_pos[2]],
                                    next_pos[1] - e.x, next_pos[2] - e.y)
                      EXCEPT !.path_index = @ + 1]
             ELSE e
    ELSE e

\* A variant of the step that takes path[path_index] for the next position.
chase_step_off_by_one(e, m) ==
    IF e.path # <<>> /\ e.path_index < Len(e.path) - 1
    THEN LET next_pos == e.path[e.path_index + 1]
         IN  IF is_path(m, next_pos[1], next_pos[2])
             THEN [update_direction([e EXCEPT !.x = next_pos[1], !.y = next_pos[2]],
                                    next_pos[1] - e.x, next_pos[2] - e.y)
                      EXCEPT !.path_index = @ + 1, !.moves_since_recalc = @ + 1]
             ELSE e
    ELSE e

\* Enemy._chase_player, lines 150-163: one step along the stored path.
\* path[path_index + 1] of the Python list is path[path_index + 2] here.
chase_step(e, m) ==
    IF e.path # <<>> /\ e.path_index < Len(e.path) - 1
    THEN LET next_pos == e.path[e.path_index + 2]
         IN  IF is_path(m, next_pos[1], next_pos[2])
             THEN [update_direction([e EXCEPT !.x = next_pos[1], !.y = next_pos[2]],
                                    next_pos[1] - e.x, next_pos[2] - e.y)
                      EXCEPT !.path_index = @ + 1, !.moves_since_recalc = @ + 1]
             ELSE e
    ELSE e

\* Enemy._chase_player
chase_player(e, player_pos, m) == chase_step(chase_recalculate(e, player_pos, m), m)

\* Enemy._patrol, line 169: the four unit steps.
patrol_directions == <<(<<0, -1>>), (<<0, 1>>), (<<-1, 0>>), (<<1, 0>>)>>

\* Enemy._patrol, lines 172-178, with the directions in the shuffled order:
\* from the i-th direction on, take the first that leads to a path cell.
RECURSIVE patrol_from(_, _, _, _)
patrol_from(e, m, order, i) ==
    IF i > Len(patrol_directions) THEN e
    ELSE LET d == patrol_directions[order[i]]
         IN  IF is_path(m, e.x + d[1], e.y + d[2])
             THEN update_direction([e EXCEPT !.x = e.x + d[1], !.y = e.y + d[2]],
                                   d[1], d[2])
             ELSE patrol_from(e, m, order, i + 1)

\* A variant of _patrol that tries the first direction of the shuffle only.
patrol_first_direction_only(e, m, order) ==
    LET d == patrol_directions[order[1]]
    IN  IF is_path(m, e.x + d[1], e.y + d[2])
        THEN update_direction([e EXCEPT !.x = e.x + d[1], !.y = e.y + d[2]],
                              d[1], d[2])
        ELSE e

\* Enemy._patrol
patrol(e, m, order) == patrol_from(e, m, order, 1)

\* A variant of update without the test of is_alive at line 126.
update_without_alive_test(e, player_x, player_y, m, t, order) ==
    LET gate == can_move_now(e, t)
    IN  IF ~gate.ret THEN gate.enemy
        ELSE LET seen == [gate.enemy EXCEPT !.player_detected =
                             can_see_player(gate.enemy, player_x, player_y)]
             IN  IF seen.player_detected
                 THEN chase_player(seen, <<player_x, player_y>>, m)
                 ELSE patrol(seen, m, order)

\* Enemy.update at time t; order is the outcome of the shuffle in _patrol.
update(e, player_x, player_y, m, t, order) ==
    IF ~e.is_alive THEN e
    ELSE LET gate == can_move_now(e, t)
         IN  IF ~gate.ret THEN gate.enemy
             ELSE LET seen == [gate.enemy EXCEPT !.player_detected =
                                  can_see_player(gate.enemy, player_x, player_y)]
                  IN  IF seen.player_detected
                      THEN chase_player(seen, <<player_x, player_y>>, m)
                      ELSE patrol(seen, m, order)

\* The maze the enemy lives in, as generate_maze leaves a 13 x 3 grid: one
\* corridor whose ends are farther apart than the vision range.
EnemyGrids ==
    { GridOf(<< <<1, 1, 1, 1, 1, 1, 1, 1, 1, 1, 1, 1, 1>>,
                <<1, 0, 0, 0, 0, 0, 0, 0, 0, 0, 0, 0, 1>>,
                <<1, 1, 1, 1, 1, 1, 1, 1, 1, 1, 1, 1, 1>> >>) }

\* A grid no generate_maze leaves, for the enemy taken by itself: the same
\* corridor cut by two walls into a cell with no path neighbour, a stretch
\* of three cells and a stretch of five.
WalledGrids ==
    { GridOf(<< <<1, 1, 1, 1, 1, 1, 1, 1, 1, 1, 1, 1, 1>>,
                <<1, 0, 1, 0, 0, 0, 1, 0, 0, 0, 0, 0, 1>>,
                <<1, 1, 1, 1, 1, 1, 1, 1, 1, 1, 1, 1, 1>> >>) }

\* The move delays enemies are created with, in quarters of a second.
MoveDelays == {1, DefaultMoveDelay}

\* time.time() advances.
Tick ==
    /\ pc = "playing"
    /\ now < MaxTime
    /\ now' = now + 1
    /\ UNCHANGED <<maze, stack, pc, call, ret, camera, enemy, player, game, search>>

\* enemy.hit()
Hit ==
    /\ pc = "playing"
    /\ call' = [op |-> "hit"]
    /\ enemy' = hit(enemy, now).enemy
    /\ ret' = hit(enemy, now).ret
    /\ UNCHANGED <<maze, stack, pc, camera, now, player, game, search>>

\* enemy.is_hit_animation_finished()
IsHitAnimationFinished ==
    /\ pc = "playing"
    /\ call' = [op |-> "is_hit_animation_finished"]
    /\ enemy' = is_hit_animation_finished(enemy, now).enemy
    /\ ret' = is_hit_animation_finished(enemy, now).ret
    /\ UNCHANGED <<maze, stack, pc, camera, now, player, game, search>>

\* enemy.reset_position(x, y) with a path cell (x, y); it returns None.
ResetPosition ==
    /\ pc = "playing"
    /\ \E c \in PathCells(maze) :
          /\ enemy' = reset_position(enemy, c[1], c[2])
          /\ call' = [op |-> "reset_position", x |-> c[1], y |-> c[2]]
    /\ ret' = None
    /\ UNCHANGED <<maze, stack, pc, camera, now, player, game, search>>

\* The cells the player is on when update is called: the two cells at one
\* end of the corridor and the cell at the other end, so that the player is
\* adjacent to, on, near, and out of sight of an enemy.
PlayerCells(m) == { c \in PathCells(m) : c[1] <= 2 \/ c[1] >= m.width - 2 }

\* Whether update, called now with the player at p, reaches _patrol.
Patrols(e, p, t) ==
    e.is_alive /\ can_move_now(e, t).ret /\ ~can_see_player(e, p[1], p[2])

\* The branch update takes when called now with the player at p: the early
\* return for a dead enemy, the early return at the move gate, _chase_player
\* or _patrol.
UpdateBranch(e, p, t) ==
    IF ~e.is_alive THEN "dead"
    ELSE IF ~can_move_now(e, t).ret THEN "gated"
    ELSE IF can_see_player(e, p[1], p[2]) THEN "chase"
    ELSE "patrol"

\* Whether update, called now with the player at p, invokes the pathfinder.
Recalculates(e, p, t) == UpdateBranch(e, p, t) = "chase" /\ needs_path(e)

\* enemy.update(player_x, player_y, maze) with the player on one of its cells;
\* it returns None.  The shuffle is drawn only when _patrol is reached.  The
\* call records the player's cell, the branch taken and whether find_path
\* was invoked.
Update ==
    /\ pc = "playing"
    /\ \E p \in PlayerCells(maze) :
          /\ \E order \in IF Patrols(enemy, p, now) THEN Shuffles(patrol_directions)
                          ELSE {[i \in 1..Len(patrol_directions) |-> i]} :
                 enemy' = update(enemy, p[1], p[2], maze, now, order)
          /\ call' = [op |-> "update", player |-> p,
                      branch |-> UpdateBranch(enemy, p, now),
                      find_path |-> Recalculates(enemy, p, now)]
    /\ ret' = None
    /\ UNCHANGED <<maze, stack, pc, camera, now, player, game, search>>

\* An enemy constructed on a path cell with a move delay and an algorithm
\* and then given the maze, the two calls Game._spawn_enemies makes for each
\* enemy.  The clock starts at 1: time.time() is positive.
InitEnemy ==
    /\ maze \in EnemyGrids
    /\ now = 1
    /\ \E c \in PathCells(maze), move_delay \in MoveDelays, algorithm \in Algorithms :
          enemy = set_maze(Enemy(c[1], c[2], move_delay, algorithm, now))
    /\ stack = <<>>
    /\ pc = "playing"
    /\ call = NoCall
    /\ ret = FALSE
    /\ camera = NoCamera
    /\ player = NoPlayer
    /\ game = NoGame
    /\ search = NoSearch

NextEnemy == Tick \/ Hit \/ IsHitAnimationFinished \/ ResetPosition \/ Update

SpecEnemy == InitEnemy /\ [][NextEnemy]_vars

\* The same enemy on a grid with walls between its cells.
InitEnemyWalled ==
    /\ maze \in WalledGrids
    /\ now = 1
    /\ \E c \in PathCells(maze), move_delay \in MoveDelays, algorithm \in Algorithms :
          enemy = set_maze(Enemy(c[1], c[2], move_delay, algorithm, now))
    /\ stack = <<>>
    /\ pc = "playing"
    /\ call = NoCall
    /\ ret = FALSE
    /\ camera = NoCamera
    /\ player = NoPlayer
    /\ game = NoGame
    /\ search = NoSearch

SpecEnemyWalled == InitEnemyWalled /\ [][NextEnemy]_vars

-----------------------------------------------------------------------------
(* src/src/player.py                                                       *)

\* Player.__init__; the sprites and the tile size play no part in the
\* behaviour.
Player(x, y) == [x |-> x, y |-> y, direction |-> "down"]

\* A variant of move that turns the player towards a wall it walks into.
move_turns_when_blocked(pl, dx, dy, m) ==
    IF is_path(m, pl.x + dx, pl.y + dy)
    THEN [player |-> update_direction([pl EXCEPT !.x = pl.x + dx, !.y = pl.y + dy],
                                      dx, dy),
          ret |-> TRUE]
    ELSE [player |-> update_direction(pl, dx, dy), ret |-> FALSE]

\* Player.move: the answer and the player afterwards.  Player._update_direction
\* is the same code as Enemy._update_direction.
move(pl, dx, dy, m) ==
    IF is_path(m, pl.x + dx, pl.y + dy)
    THEN [player |-> update_direction([pl EXCEPT !.x = pl.x + dx, !.y = pl.y + dy],
                                      dx, dy),
          ret |-> TRUE]
    ELSE [player |-> pl, ret |-> FALSE]

\* The steps move is called with: each of dx and dy is -1, 0 or 1.
Deltas == (-1..1) \X (-1..1)

\* player.move(dx, dy, maze)
Move ==
    /\ pc = "ready"
    /\ \E d \in Deltas :
          /\ call' = [op |-> "move", dx |-> d[1], dy |-> d[2]]
          /\ player' = move(player, d[1], d[2], maze).player
          /\ ret' = move(player, d[1], d[2], maze).ret
    /\ UNCHANGED <<maze, stack, pc, camera, enemy, now, game, search>>

\* A player constructed on a path cell of a grid.
InitPlayer ==
    /\ maze \in SmallGrids \cup FixtureGrids
    /\ \E c \in PathCells(maze) : player = Player(c[1], c[2])
    /\ stack = <<>>
    /\ pc = "ready"
    /\ call = NoCall
    /\ ret = FALSE
    /\ camera = NoCamera
    /\ enemy = NoEnemy
    /\ now = 0
    /\ game = NoGame
    /\ search = NoSearch

NextPlayer == Move

SpecPlayer == InitPlayer /\ [][NextPlayer]_vars

-----------------------------------------------------------------------------
(* config.py, which src/main.py imports and which is not among the sources:  *)
(* the values are chosen here, within what main.py needs of them.          *)

\* The size of the maze; _spawn_enemies draws from 5..MAZE_WIDTH - 5.
MAZE_WIDTH == 13
MAZE_HEIGHT == 13

\* The player's first cell and the exit cell.
PLAYER_START_X == 1
PLAYER_START_Y == 1
EXIT_X == 3
EXIT_Y == 3

\* The camera's vision range and the score a session starts with.
VISION_RANGE == 5
INITIAL_SCORE == 100

\* The difficulty settings, enemy_speed in quarters of a second, and
\* list(DIFFICULTY_SETTINGS.keys()).
DIFFICULTY_SETTINGS ==
    [easy |-> [enemy_count |-> 1, enemy_speed |-> 2, max_hits |-> 2,
               hit_to_score_multiplier |-> 10],
     hard |-> [enemy_count |-> 1, enemy_speed |-> 1, max_hits |-> 1,
               hit_to_score_multiplier |-> 20]]
difficulties == <<"easy", "hard">>

PATHFINDING_ALGORITHMS == <<"A*", "BFS", "DFS">>

-----------------------------------------------------------------------------
(* src/main.py                                                             *)

\* GameState
DIFFICULTY_SELECT == "difficulty_select"
ALGORITHM_SELECT == "algorithm_select"
PLAYING == "playing"
GAME_OVER == "game_over"
GAME_WON == "game_won"

\* self.maze = None, before the first session.
NoMaze == [width |-> 0, height |-> 0, grid |-> <<>>]

\* Game.__init__, lines 37-60.  sessions is not a field of the object: it
\* counts the calls of _initialize_game, which MaxSessions bounds.
Game ==
    [sessions |-> 0,
     state |-> DIFFICULTY_SELECT, difficulty |-> "None", algorithm |-> "None",
     selected_difficulty_index |-> 0, selected_algorithm_index |-> 0,
     enemies |-> <<>>,
     score |-> INITIAL_SCORE, moves_made |-> 0, enemies_killed |-> 0,
     hits_used |-> 0, max_hits_allowed |-> 0,
     running |-> TRUE, game_won |-> FALSE, game_over |-> FALSE,
     game_over_reason |-> ""]

\* The mazes Maze(MAZE_WIDTH, MAZE_HEIGHT) gives a session: one that
\* generate_maze produced.
GameMazes ==
    { GridOf(<< <<1, 1, 1, 1, 1, 1, 1, 1, 1, 1, 1, 1, 1>>,
                <<1, 0, 0, 0, 1, 0, 0, 0, 0, 0, 0, 0, 1>>,
                <<1, 1, 1, 0, 1, 1, 1, 0, 1, 1, 1, 0, 1>>,
                <<1, 0, 1, 0, 0, 0, 1, 0, 0, 0, 1, 0, 1>>,
                <<1, 0, 1, 1, 1, 0, 1, 1, 1, 0, 1, 1, 1>>,
                <<1, 0, 0, 0, 1, 0, 0, 0, 1, 0, 0, 0, 1>>,
                <<1, 1, 1, 0, 1, 1, 1, 0, 1, 1, 1, 0, 1>>,
                <<1, 0, 0, 0, 0, 0, 1, 0, 0, 0, 1, 0, 1>>,
                <<1, 0, 1, 1, 1, 1, 1, 1, 1, 0, 1, 0, 1>>,
                <<1, 0, 0, 0, 0, 0, 0, 0, 1, 0, 1, 0, 1>>,
                <<1, 0, 1, 1, 1, 0, 1, 1, 1, 0, 1, 0, 1>>,
                <<1, 0, 0, 0, 1, 0, 0, 0, 0, 0, 0, 0, 1>>,
                <<1, 1, 1, 1, 1, 1, 1, 1, 1, 1, 1, 1, 1>> >>) }

\* The keys handle_input tells apart; W, S, A and D are handled as the
\* arrow keys are.
Keys == {"ESCAPE", "UP", "DOWN", "LEFT", "RIGHT", "RETURN", "SPACE"}

\* _handle_difficulty_input
handle_difficulty_input(g, key) ==
    LET n == Len(difficulties)
    IN  IF key = "UP"
        THEN [g EXCEPT !.selected_difficulty_index = (@ - 1) % n]
        ELSE IF key = "DOWN"
        THEN [g EXCEPT !.selected_difficulty_index = (@ + 1) % n]
        ELSE IF key \in {"RETURN", "SPACE"}
        THEN [g EXCEPT !.difficulty = difficulties[g.selected_difficulty_index + 1],
                       !.state = ALGORITHM_SELECT,
                       !.selected_algorithm_index = 0]
        ELSE g

\* _handle_algorithm_input, the two keys that move the selection.
handle_algorithm_input(g, key) ==
    LET n == Len(PATHFINDING_ALGORITHMS)
    IN  IF key = "UP"
        THEN [g EXCEPT !.selected_algorithm_index = (@ - 1) % n]
        ELSE IF key = "DOWN"
        THEN [g EXCEPT !.selected_algorithm_index = (@ + 1) % n]
        ELSE g

\* The cells _spawn_enemies and _get_random_spawn_location draw from.
SpawnDraws ==
    (5..(MAZE_WIDTH - 5)) \X (5..(MAZE_HEIGHT - 5))

\* A variant of the override that also opens the cell left of the exit.
force_exit_and_way_in(m) ==
    [m EXCEPT !.grid = SetCell(SetCell(m.grid, EXIT_X, EXIT_Y, 0), EXIT_X - 1, EXIT_Y, 0)]

\* _initialize_game, line 77: the exit cell becomes a path.
force_exit(m) == [m EXCEPT !.grid = SetCell(m.grid, EXIT_X, EXIT_Y, 0)]

\* _try_hit_enemy, lines 241-256: the loop over the enemies from the i-th
\* on, at time t.
RECURSIVE try_hit_from(_, _, _, _)
try_hit_from(g, pl, t, i) ==
    IF i > Len(g.enemies) THEN g
    ELSE LET e == g.enemies[i]
             adjacent_positions == {<<pl.x, pl.y - 1>>, <<pl.x, pl.y + 1>>,
                                    <<pl.x - 1, pl.y>>, <<pl.x + 1, pl.y>>}
         IN  IF ~e.is_alive THEN try_hit_from(g, pl, t, i + 1)
             ELSE IF <<e.x, e.y>> \in adjacent_positions
             THEN LET h == hit(e, t)
                  IN  IF h.ret
                      THEN [g EXCEPT !.enemies[i] = h.enemy,
                                     !.hits_used = @ + 1,
                                     !.enemies_killed =
                                         IF ~h.enemy.is_alive THEN @ + 1 ELSE @]
                      ELSE g
             ELSE try_hit_from(g, pl, t, i + 1)

\* The enemies _try_hit_enemy looks for: alive and on one of the four
\* adjacent_positions of the player (lines 234-249).
AdjacentAlive(g, pl) ==
    { i \in 1..Len(g.enemies) :
         /\ g.enemies[i].is_alive
         /\ Abs(g.enemies[i].x - pl.x) + Abs(g.enemies[i].y - pl.y) = 1 }

\* A variant of _try_hit_enemy without the break at line 256: it hits every
\* alive enemy next to the player.
try_hit_enemy_every_adjacent(g, pl, t) ==
    IF g.hits_used >= g.max_hits_allowed THEN g
    ELSE LET hits == { i \in AdjacentAlive(g, pl) : hit(g.enemies[i], t).ret }
         IN  [g EXCEPT !.enemies = [i \in 1..Len(g.enemies) |->
                                       IF i \in hits THEN hit(g.enemies[i], t).enemy
                                       ELSE g.enemies[i]],
                       !.hits_used = @ + Cardinality(hits),
                       !.enemies_killed = @ + Cardinality(hits)]

\* _try_hit_enemy
try_hit_enemy(g, pl, t) ==
    IF g.hits_used >= g.max_hits_allowed THEN g
    ELSE try_hit_from(g, pl, t, 1)

\* The step of an arrow key, <<0, 0>> for another key.
KeyStep(key) ==
    IF key = "UP" THEN <<0, -1>>
    ELSE IF key = "DOWN" THEN <<0, 1>>
    ELSE IF key = "LEFT" THEN <<-1, 0>>
    ELSE IF key = "RIGHT" THEN <<1, 0>>
    ELSE <<0, 0>>

\* A variant of _handle_gameplay_input that takes the point of a move
\* without the floor of line 210.
handle_gameplay_input_no_floor(g, pl, key, m, t) ==
    IF key \in {"UP", "DOWN", "LEFT", "RIGHT"}
    THEN LET mv == move(pl, KeyStep(key)[1], KeyStep(key)[2], m)
         IN  IF mv.ret
             THEN [game |-> [g EXCEPT !.moves_made = @ + 1, !.score = @ - 1],
                   player |-> mv.player]
             ELSE [game |-> g, player |-> mv.player]
    ELSE IF key = "SPACE"
    THEN [game |-> try_hit_enemy(g, pl, t), player |-> pl]
    ELSE [game |-> g, player |-> pl]

\* _handle_gameplay_input at time t: the game and the player afterwards.
handle_gameplay_input(g, pl, key, m, t) ==
    IF key \in {"UP", "DOWN", "LEFT", "RIGHT"}
    THEN LET mv == move(pl, KeyStep(key)[1], KeyStep(key)[2], m)
         IN  IF mv.ret
             THEN [game |-> [g EXCEPT !.moves_made = @ + 1,
                                      !.score = IF @ - 1 > 0 THEN @ - 1 ELSE 0],
                   player |-> mv.player]
             ELSE [game |-> g, player |-> mv.player]
    ELSE IF key = "SPACE"
    THEN [game |-> try_hit_enemy(g, pl, t), player |-> pl]
    ELSE [game |-> g, player |-> pl]

\* handle_input, lines 160-174, for a KEYDOWN event that does not start a
\* session: the game and the player afterwards.
handle_keydown(g, pl, key, m, t) ==
    IF key = "ESCAPE"
    THEN IF g.state = PLAYING
         THEN [game |-> [g EXCEPT !.state = DIFFICULTY_SELECT], player |-> pl]
         ELSE [game |-> [g EXCEPT !.running = FALSE], player |-> pl]
    ELSE IF g.state = DIFFICULTY_SELECT
    THEN [game |-> handle_difficulty_input(g, key), player |-> pl]
    ELSE IF g.state = ALGORITHM_SELECT
    THEN [game |-> handle_algorithm_input(g, key), player |-> pl]
    ELSE IF g.state = PLAYING
    THEN handle_gameplay_input(g, pl, key, m, t)
    ELSE IF g.state \in {GAME_OVER, GAME_WON}
    THEN IF key = "ESCAPE"
         THEN [game |-> [g EXCEPT !.state = DIFFICULTY_SELECT], player |-> pl]
         ELSE [game |-> g, player |-> pl]
    ELSE [game |-> g, player |-> pl]

\* Whether a KEYDOWN event reaches _initialize_game (line 194).
StartsSession(g, key) ==
    key # "ESCAPE" /\ g.state = ALGORITHM_SELECT /\ key \in {"RETURN", "SPACE"}

\* _get_random_spawn_location without the test of the distance at line 126.
RespawnCells_any_path(m, pl) ==
    { c \in SpawnDraws : is_path(m, c[1], c[2]) }

\* _get_random_spawn_location, line 126: the draws that end the search, with
\* the player at pl.  When there is none the search never returns.
RespawnCells(m, pl) ==
    { c \in SpawnDraws :
         is_path(m, c[1], c[2]) /\ Abs(c[1] - pl.x) + Abs(c[2] - pl.y) >= 10 }

\* _calculate_final_score
calculate_final_score(g) ==
    LET hit_to_score == DIFFICULTY_SETTINGS[g.difficulty].hit_to_score_multiplier
        remaining_hits == g.max_hits_allowed - g.hits_used
        bonus_score == (IF remaining_hits > 0 THEN remaining_hits ELSE 0) * hit_to_score
    IN  [g EXCEPT !.score = IF @ + bonus_score > 0 THEN @ + bonus_score ELSE 0]

\* Whether update, at time t, respawns the enemy e when its turn comes.
RespawnDue(e, t) == ~e.is_alive /\ is_hit_animation_finished(e, t).ret

\* A variant of the collision test that never finds the player caught.
collides_never(e, pl) == FALSE

\* Game.update, line 283: the enemy stands on the player's tile.
collides(e, pl) == <<e.x, e.y>> = <<pl.x, pl.y>>

\* Game.update, lines 268-292: the loop over the enemies from the i-th on and
\* the test for the exit after it.  orders[i] is the outcome of the shuffle
\* in the i-th enemy's _patrol and spawns[i] what _get_random_spawn_location
\* returns for it, None when the search does not return.  The result is the
\* game afterwards and whether update returns.
RECURSIVE update_from(_, _, _, _, _, _, _)
update_from(g, pl, m, t, orders, spawns, i) ==
    IF i > Len(g.enemies)
    THEN IF <<pl.x, pl.y>> = <<EXIT_X, EXIT_Y>>
         THEN [game |-> [calculate_final_score([g EXCEPT !.game_won = TRUE])
                            EXCEPT !.state = GAME_WON],
               returns |-> TRUE]
         ELSE [game |-> g, returns |-> TRUE]
    ELSE LET e == g.enemies[i]
         IN  IF ~e.is_alive
             THEN LET f == is_hit_animation_finished(e, t)
                  IN  IF f.ret
                      THEN IF spawns[i] = None
                           THEN [game |-> [g EXCEPT !.enemies[i] = f.enemy],
                                 returns |-> FALSE]
                           ELSE update_from(
                                    [g EXCEPT !.enemies[i] =
                                        reset_position(f.enemy, spawns[i][1], spawns[i][2])],
                                    pl, m, t, orders, spawns, i + 1)
                      ELSE update_from([g EXCEPT !.enemies[i] = f.enemy],
                                       pl, m, t, orders, spawns, i + 1)
             ELSE LET moved == update(e, pl.x, pl.y, m, t, orders[i])
                      g2 == [g EXCEPT !.enemies[i] = moved]
                  IN  IF collides(moved, pl)
                      THEN [game |-> [g2 EXCEPT !.game_over = TRUE,
                                                !.game_over_reason = "CAUGHT BY ENEMY!",
                                                !.state = GAME_OVER],
                            returns |-> TRUE]
                      ELSE update_from(g2, pl, m, t, orders, spawns, i + 1)

\* Game.update
game_update(g, pl, m, t, orders, spawns) ==
    IF g.state # PLAYING THEN [game |-> g, returns |-> TRUE]
    ELSE IF g.game_over \/ g.game_won THEN [game |-> g, returns |-> TRUE]
    ELSE update_from(g, pl, m, t, orders, spawns, 1)

\* The moves of a session are followed while the score is first counted
\* down, and again where the count reaches the floor: MaxMoves moves from
\* the start, and MaxMoves moves from the last but one point of the score.
MovesLeft(g) ==
    \/ g.moves_made < MaxMoves
    \/ /\ g.moves_made >= INITIAL_SCORE - 2
       /\ g.moves_made < INITIAL_SCORE - 2 + MaxMoves

\* handle_input with one KEYDOWN event in the queue; the event that ends
\* self.running is the last one handled, and the menus are left alone once
\* MaxSessions sessions have been started.  With RETURN or SPACE
\* in the algorithm menu it runs _handle_algorithm_input's lines 193-194 and
\* _initialize_game up to line 71: the maze, the player and the camera are
\* made, and _spawn_enemies comes next.  The list _spawn_enemies builds is
\* kept in game.enemies; nothing reads self.enemies before it is assigned.
KeyDown ==
    /\ pc = "loop"
    /\ game.running
    /\ game.state \in {DIFFICULTY_SELECT, ALGORITHM_SELECT}
          => game.sessions < MaxSessions
    /\ \E key \in Keys :
          /\ (game.state = PLAYING /\ KeyStep(key) # <<0, 0>>)
                => MovesLeft(game)
          /\ IF StartsSession(game, key)
             THEN /\ game' = [game EXCEPT
                                 !.algorithm =
                                     PATHFINDING_ALGORITHMS[game.selected_algorithm_index + 1],
                                 !.enemies = <<>>,
                                 !.sessions = @ + 1]
                  /\ maze' \in GameMazes
                  /\ player' = Player(PLAYER_START_X, PLAYER_START_Y)
                  /\ camera' = Camera(VISION_RANGE, MAZE_WIDTH, MAZE_HEIGHT)
                  /\ pc' = "spawn_enemies"
             ELSE /\ game' = handle_keydown(game, player, key, maze, now).game
                  /\ player' = handle_keydown(game, player, key, maze, now).player
                  /\ UNCHANGED <<maze, camera, pc, search>>
    /\ call' = [op |-> "handle_input", event |-> "KEYDOWN"]
    /\ ret' = None
    /\ UNCHANGED <<stack, enemy, now, search>>

\* handle_input with a QUIT event in the queue (line 158).
Quit ==
    /\ pc = "loop"
    /\ game.running
    /\ game' = [game EXCEPT !.running = FALSE]
    /\ call' = [op |-> "handle_input", event |-> "QUIT"]
    /\ ret' = None
    /\ UNCHANGED <<maze, stack, pc, camera, enemy, now, player, search>>

\* _spawn_enemies, lines 98-109: one draw of the while loop, with the query
\* it puts to the maze.  After the last enemy _initialize_game goes on to
\* line 77.
SpawnEnemy ==
    /\ pc = "spawn_enemies"
    /\ \E c \in SpawnDraws :
          LET config == DIFFICULTY_SETTINGS[game.difficulty]
              ok == is_path(maze, c[1], c[2])
                    /\ c # <<PLAYER_START_X, PLAYER_START_Y>>
              enemies == IF ok
                         THEN Append(game.enemies,
                                     set_maze(Enemy(c[1], c[2], config.enemy_speed,
                                                    game.algorithm, now)))
                         ELSE game.enemies
          IN  /\ call' = [op |-> "is_path", x |-> c[1], y |-> c[2]]
              /\ ret' = is_path(maze, c[1], c[2])
              /\ game' = [game EXCEPT !.enemies = enemies]
              /\ pc' = IF Len(enemies) = config.enemy_count
                       THEN "force_exit" ELSE "spawn_enemies"
    /\ UNCHANGED <<maze, stack, camera, enemy, now, player, search>>

\* _initialize_game, lines 77-87, and _handle_algorithm_input, line 195.
ForceExit ==
    /\ pc = "force_exit"
    /\ maze' = force_exit(maze)
    /\ game' = [game EXCEPT
                   !.score = INITIAL_SCORE, !.moves_made = 0,
                   !.enemies_killed = 0, !.hits_used = 0,
                   !.max_hits_allowed = DIFFICULTY_SETTINGS[game.difficulty].max_hits,
                   !.state = PLAYING]
    /\ pc' = "loop"
    /\ call' = [op |-> "initialize_game"]
    /\ ret' = None
    /\ UNCHANGED <<stack, camera, enemy, now, player, search>>

\* The sequences that take their i-th element from the i-th set.
RECURSIVE Choices(_)
Choices(sets) ==
    IF sets = <<>> THEN {<<>>}
    ELSE { Append(c, x) : c \in Choices(SubSeq(sets, 1, Len(sets) - 1)),
                          x \in sets[Len(sets)] }

\* The outcomes of the shuffles of one Game.update: a shuffle is drawn for an
\* enemy only when its update reaches _patrol.
UpdateOrders ==
    Choices([i \in 1..Len(game.enemies) |->
                IF Patrols(game.enemies[i], <<player.x, player.y>>, now)
                THEN Shuffles(patrol_directions)
                ELSE {[j \in 1..Len(patrol_directions) |-> j]}])

\* What _get_random_spawn_location returns in one Game.update: a cell for
\* each enemy that is respawned, None for the others and when the search
\* does not end.
UpdateSpawns ==
    Choices([i \in 1..Len(game.enemies) |->
                IF RespawnDue(game.enemies[i], now)
                   /\ RespawnCells(maze, player) # {}
                THEN RespawnCells(maze, player)
                ELSE {None}])

\* One pass of the loop of run: Game.update, and the test of self.running.
\* When _get_random_spawn_location does not return, neither does update.
GameUpdate ==
    /\ pc = "loop"
    /\ \E orders \in IF game.state = PLAYING THEN UpdateOrders ELSE {<<>>},
          spawns \in IF game.state = PLAYING THEN UpdateSpawns ELSE {<<>>} :
          LET r == game_update(game, player, maze, now, orders, spawns)
          IN  /\ game' = r.game
              /\ pc' = IF ~r.returns THEN "respawn_search"
                       ELSE IF game.running THEN "loop" ELSE "stopped"
    /\ call' = [op |-> "game_update"]
    /\ ret' = None
    /\ UNCHANGED <<maze, stack, camera, enemy, now, player, search>>

\* time.time() advances while the loop runs.
GameTick ==
    /\ pc = "loop"
    /\ game.running
    /\ now < MaxGameTime
    /\ now' = now + 1
    /\ UNCHANGED <<maze, stack, pc, call, ret, camera, enemy, player, game, search>>

\* Game.__init__
InitGame ==
    /\ game = Game
    /\ search = NoSearch
    /\ maze = NoMaze
    /\ player = NoPlayer
    /\ camera = NoCamera
    /\ enemy = NoEnemy
    /\ stack = <<>>
    /\ pc = "loop"
    /\ call = NoCall
    /\ ret = FALSE
    /\ now = 1

NextGame == KeyDown \/ Quit \/ SpawnEnemy \/ ForceExit \/ GameUpdate \/ GameTick

SpecGame == InitGame /\ [][NextGame]_vars

\* The tiles where a session with two enemies is taken up: the player has
\* walked three tiles from the start to the passage above the exit, each
\* enemy has come up the corridor to the exit tile or the one behind it.
HitsPlayerCell == <<3, 2>>
HitsEnemyCells == {<<3, 3>>, <<4, 3>>}

\* A session under way with two enemies (enemy_count is a setting of the
\* difficulty; DIFFICULTY_SETTINGS above gives every difficulty one enemy
\* to keep the whole game small).  The maze has its exit forced, the
\* counters are what _initialize_game and three moves made of them, and
\* the enemies have just moved.
InitHits ==
    /\ now = MaxGameTime - 3
    /\ \E d \in {"easy", "hard"}, a \in {"A*", "BFS", "DFS"},
          c1 \in HitsEnemyCells, c2 \in HitsEnemyCells :
          game = [Game EXCEPT
                     !.sessions = MaxSessions,
                     !.state = PLAYING, !.difficulty = d, !.algorithm = a,
                     !.enemies =
                         << set_maze(Enemy(c1[1], c1[2],
                                           DIFFICULTY_SETTINGS[d].enemy_speed, a, now)),
                            set_maze(Enemy(c2[1], c2[2],
                                           DIFFICULTY_SETTINGS[d].enemy_speed, a, now)) >>,
                     !.moves_made = 3, !.score = INITIAL_SCORE - 3,
                     !.max_hits_allowed = DIFFICULTY_SETTINGS[d].max_hits]
    /\ maze \in { force_exit(m) : m \in GameMazes }
    /\ player = Player(HitsPlayerCell[1], HitsPlayerCell[2])
    /\ camera = Camera(VISION_RANGE, MAZE_WIDTH, MAZE_HEIGHT)
    /\ search = NoSearch
    /\ enemy = NoEnemy
    /\ stack = <<>>
    /\ pc = "loop"
    /\ call = NoCall
    /\ ret = FALSE

NextHits == KeyDown \/ Quit \/ GameUpdate \/ GameTick

SpecHits == InitHits /\ [][NextHits]_vars

\* A session under way in which the player, back on the start tile, has
\* two points of the score left and has at this moment hit the enemy that
\* came up to the next tile, so one hit is used (_try_hit_enemy, lines
\* 250-255).
InitScore ==
    /\ now = MaxGameTime - 1
    /\ maze \in { force_exit(m) : m \in GameMazes }
    /\ player = Player(PLAYER_START_X, PLAYER_START_Y)
    /\ \E d \in {"easy", "hard"}, a \in {"A*", "BFS", "DFS"} :
          LET spawned == set_maze(Enemy(PLAYER_START_X + 1, PLAYER_START_Y,
                                        DIFFICULTY_SETTINGS[d].enemy_speed, a, now))
          IN  game = [Game EXCEPT
                         !.sessions = MaxSessions,
                         !.state = PLAYING, !.difficulty = d, !.algorithm = a,
                         !.enemies = << hit(spawned, now).enemy >>,
                         !.moves_made = INITIAL_SCORE - 2, !.score = 2,
                         !.hits_used = 1, !.enemies_killed = 1,
                         !.max_hits_allowed = DIFFICULTY_SETTINGS[d].max_hits]
    /\ camera = Camera(VISION_RANGE, MAZE_WIDTH, MAZE_HEIGHT)
    /\ search = NoSearch
    /\ enemy = NoEnemy
    /\ stack = <<>>
    /\ pc = "loop"
    /\ call = NoCall
    /\ ret = FALSE

SpecScore == InitScore /\ [][NextHits]_vars

-----------------------------------------------------------------------------
(* An enemy pursuing a player who stands still in a generated maze: the    *)
(* maze is generated, a player and an enemy are put on path cells, and     *)
(* from then on only the clock and the enemy move.                         *)

\* Player(x, y) on a path cell, and Enemy(x, y, TILE_SIZE, move_delay,
\* algorithm) followed by set_maze on a path cell, as _spawn_enemies makes
\* them, once the maze is generated.  The pursuit is followed in the mazes
\* of at most MaxChaseCells cells.
ChaseSpawn ==
    /\ pc = "generated"
    /\ maze.width * maze.height <= MaxChaseCells
    /\ now' = 1
    /\ \E p \in PathCells(maze), c \in PathCells(maze),
          move_delay \in MoveDelays, algorithm \in Algorithms :
          /\ player' = Player(p[1], p[2])
          /\ enemy' = set_maze(Enemy(c[1], c[2], move_delay, algorithm, 1))
    /\ pc' = "playing"
    /\ UNCHANGED <<maze, stack, call, ret, camera, game, search>>

\* enemy.update(player_x, player_y, self.maze) as Game.update calls it, with
\* the player where it stands.  The call records what Update records.
ChaseUpdate ==
    /\ pc = "playing"
    /\ LET p == <<player.x, player.y>>
       IN  /\ \E order \in IF Patrols(enemy, p, now) THEN Shuffles(patrol_directions)
                           ELSE {[i \in 1..Len(patrol_directions) |-> i]} :
                  enemy' = update(enemy, p[1], p[2], maze, now, order)
           /\ call' = [op |-> "update", player |-> p,
                       branch |-> UpdateBranch(enemy, p, now),
                       find_path |-> Recalculates(enemy, p, now)]
    /\ ret' = None
    /\ UNCHANGED <<maze, stack, pc, camera, now, player, game, search>>

NextChase == GenerateStep \/ GenerateDone \/ ChaseSpawn \/ Tick \/ ChaseUpdate

SpecChase == InitMaze /\ [][NextChase]_vars

-----------------------------------------------------------------------------
(* Properties of maze generation (checked under SpecMaze).                 *)

\* C1: in every maze generate_maze produces with odd width and height >= 5,
\* every path cell is reachable from the start cell (1,1) through adjacent
\* path cells.
C1_EveryPathCellReachable ==
    (pc = "generated" /\ Odd(maze.width) /\ Odd(maze.height)
        /\ maze.width >= 5 /\ maze.height >= 5)
    => PathCells(maze) = ReachableFrom(maze, <<1, 1>>)

\* A finished 7 x 5 maze: six lattice cells and the five walls opened
\* between them.
C1_Witness ==
    /\ pc = "generated"
    /\ maze.width = 7 /\ maze.height = 5
    /\ Cardinality(PathCells(maze)) = 11

-----------------------------------------------------------------------------
(* Properties of the pathfinders and of the grid queries (checked under    *)
(* SpecPath).                                                              *)

FoundPath == call.op = "find_path"

Connected(m, s, g) == s \in PathCells(m) /\ g \in ReachableFrom(m, s)

\* C2: on every grid, cycles or not, and for every pair of path cells with
\* the goal reachable from the start, A* and BFS return paths of the same
\* length, and that length is the shortest distance between the two cells
\* plus one.  (A* does not: it lowers the cost of a node inside its heap
\* without restoring the heap order, and then pops the goal too early.)
C2_AStarAndBFSShortest ==
    (FoundPath /\ call.algorithm \in {"A*", "BFS"}
        /\ Connected(maze, call.start, call.goal))
    => /\ Len(ret) = Distance(maze, call.start, call.goal) + 1
       /\ call.algorithm = "A*"
             => Len(ret) = Len(BFS_find_path(maze, call.start, call.goal))

\* C3: with a start or a goal that is a wall or lies outside the grid, every
\* strategy returns the empty list.
C3_InvalidEndpointsEmpty ==
    (FoundPath /\ (call.start \notin PathCells(maze) \/ call.goal \notin PathCells(maze)))
    => ret = <<>>

\* A call from outside the grid to a path cell next to it.
C3_Witness ==
    /\ FoundPath /\ call.algorithm = "DFS"
    /\ call.start = <<-1, 0>> /\ call.goal = <<0, 0>>
    /\ call.goal \in PathCells(maze)
    /\ ret = <<>>

\* C4: between two path cells DFS returns a path without a repeated
\* coordinate, and a non-empty one when the goal is reachable from the start.
C4_DFSSimpleAndComplete ==
    (FoundPath /\ call.algorithm = "DFS"
        /\ call.start \in PathCells(maze) /\ call.goal \in PathCells(maze))
    => /\ NoRepeats(ret)
       /\ Connected(maze, call.start, call.goal) => ret # <<>>

\* DFS has returned a path longer than the shortest one.
C4_Witness ==
    /\ FoundPath /\ call.algorithm = "DFS"
    /\ Connected(maze, call.start, call.goal)
    /\ Len(ret) > Distance(maze, call.start, call.goal) + 1

\* C5: a non-empty path returned by any strategy starts at start and ends at
\* goal.
C5_PathEndpoints ==
    (FoundPath /\ ret # <<>>)
    => ret[1] = call.start /\ ret[Len(ret)] = call.goal

\* A* has returned a path of at least three cells.
C5_Witness ==
    /\ FoundPath /\ call.algorithm = "A*"
    /\ Len(ret) >= 3
    /\ call.start # call.goal

\* C6: every coordinate of a returned path is a path cell of the grid, and
\* consecutive coordinates are one unit step apart along one axis.
C6_PathOnGridUnitSteps ==
    FoundPath
    => /\ \A i \in 1..Len(ret) : ret[i] \in PathCells(maze)
       /\ \A i \in 1..(Len(ret) - 1) :
             \/ ret[i + 1][1] = ret[i][1] /\ Abs(ret[i + 1][2] - ret[i][2]) = 1
             \/ ret[i + 1][2] = ret[i][2] /\ Abs(ret[i + 1][1] - ret[i][1]) = 1

\* BFS has returned a path that turns a corner.
C6_Witness ==
    /\ FoundPath /\ call.algorithm = "BFS"
    /\ Len(ret) >= 3
    /\ ret[1][1] # ret[Len(ret)][1] /\ ret[1][2] # ret[Len(ret)][2]

\* C8: is_wall and is_path answer for every integer pair, exactly one of the
\* two is true, and outside the grid it is is_wall.
C8_ClassificationTotal ==
    /\ call.op = "is_wall"
       => /\ ret \in BOOLEAN
          /\ ret # is_path(maze, call.x, call.y)
          /\ <<call.x, call.y>> \notin Cells(maze) => ret = TRUE
    /\ call.op = "is_path"
       => /\ ret \in BOOLEAN
          /\ ret # is_wall(maze, call.x, call.y)
          /\ <<call.x, call.y>> \notin Cells(maze) => ret = FALSE

\* is_path has been asked about a pair with a negative x and a y that is too
\* large.
C8_Witness ==
    /\ call.op = "is_path"
    /\ call.x < 0 /\ call.y > maze.height
    /\ ret = FALSE

-----------------------------------------------------------------------------
(* Properties of the visibility field (checked under SpecCamera).          *)

\* C7: get_visible_tiles(x, y) is exactly the set of coordinates of the grid
\* whose Manhattan distance from (x, y) is at most vision_range; with range 2
\* at (5,5), away from every edge, these are 13 coordinates, and at (0,0)
\* they are the part of that diamond that lies on the grid.
C7_VisibleDiamond ==
    call.op = "get_visible_tiles"
    => /\ ret = {c \in (0..(camera.maze_width - 1)) \X (0..(camera.maze_height - 1)) :
                    Abs(c[1] - call.x) + Abs(c[2] - call.y) <= camera.vision_range}
       /\ (camera.vision_range = 2 /\ call.x = 5 /\ call.y = 5
              /\ camera.maze_width >= 8 /\ camera.maze_height >= 8)
          => Cardinality(ret) = 13
       /\ (camera.vision_range = 2 /\ call.x = 0 /\ call.y = 0
              /\ camera.maze_width >= 3 /\ camera.maze_height >= 3)
          => ret = {<<0, 0>>, <<1, 0>>, <<2, 0>>, <<0, 1>>, <<1, 1>>, <<0, 2>>}

\* The query with range 2 at (5,5) on an 8 x 8 grid has returned 13 tiles.
C7_Witness ==
    /\ call.op = "get_visible_tiles"
    /\ camera.vision_range = 2 /\ call.x = 5 /\ call.y = 5
    /\ camera.maze_width = 8 /\ camera.maze_height = 8
    /\ Cardinality(ret) = 13

\* The coordinates of the camera's grid.
InBounds(cam) == (0..(cam.maze_width - 1)) \X (0..(cam.maze_height - 1))

\* C31: with one vision range, for in-bounds coordinates a and b, b is in
\* get_visible_tiles(a) exactly when a is in get_visible_tiles(b).
C31_VisibilitySymmetric ==
    (call.op = "get_visible_tiles" /\ <<call.x, call.y>> \in InBounds(camera))
    => \A b \in InBounds(camera) :
          b \in ret <=> <<call.x, call.y>> \in get_visible_tiles(camera, b[1], b[2])

\* A query from the corner of a grid that is larger than the range: a tile
\* at the full range is seen and sees the corner, and a tile beyond it is
\* not seen and does not see the corner.
C31_Witness ==
    /\ call.op = "get_visible_tiles" /\ call.x = 0 /\ call.y = 0
    /\ camera.vision_range = 3 /\ camera.maze_width = 6 /\ camera.maze_height = 5
    /\ <<2, 1>> \in ret /\ <<0, 0>> \in get_visible_tiles(camera, 2, 1)
    /\ <<3, 1>> \notin ret /\ <<0, 0>> \notin get_visible_tiles(camera, 3, 1)

-----------------------------------------------------------------------------
(* Properties of the enemy's life cycle (checked under SpecEnemy).         *)

\* The enemy is in the Hit state: dead, with the death animation running.
InHitState(e) == ~e.is_alive /\ e.is_hit

\* C9: hit() on an alive enemy returns True, leaves it dead and in the Hit
\* state and records the time of the hit, changing no other field; hit() on
\* an enemy that is not alive returns False and changes no field, the
\* recorded time included.
C9_HitOnceUntilRespawn ==
    [][Hit => IF enemy.is_alive
              THEN /\ ret' = TRUE
                   /\ InHitState(enemy')
                   /\ enemy' = [enemy EXCEPT !.is_alive = FALSE, !.is_hit = TRUE,
                                             !.hit_start_time = now]
              ELSE /\ ret' = FALSE
                   /\ enemy' = enemy]_vars

\* A second hit has been rejected while the animation of the first was
\* still running.
C9_Witness ==
    /\ call.op = "hit" /\ ret = FALSE
    /\ InHitState(enemy)
    /\ enemy.hit_start_time < now
    /\ now - enemy.hit_start_time < HitAnimationTime

\* C10: while the enemy is in the Hit state, is_hit_animation_finished
\* returns False and changes nothing as long as less than hit_animation_time
\* has passed since the recorded hit, and from then on the first query
\* returns True and leaves the enemy dead and out of the Hit state; an enemy
\* in the Hit state is never alive, no other operation than this query and
\* reset_position ends the Hit state, and for an enemy that was never hit the
\* query returns False.
C10_HitAnimationWindow ==
    [][/\ enemy.is_hit => ~enemy.is_alive
       /\ IsHitAnimationFinished
            => IF enemy.is_hit /\ now >= enemy.hit_start_time + HitAnimationTime
               THEN /\ ret' = TRUE
                    /\ ~enemy'.is_alive /\ ~enemy'.is_hit
                    /\ enemy' = [enemy EXCEPT !.is_hit = FALSE]
               ELSE /\ ret' = FALSE
                    /\ enemy' = enemy
       /\ (IsHitAnimationFinished /\ enemy.hit_start_time = 0) => ret' = FALSE
       /\ (InHitState(enemy) /\ ~IsHitAnimationFinished /\ ~ResetPosition)
            => /\ InHitState(enemy')
               /\ enemy'.hit_start_time = enemy.hit_start_time]_vars

\* The animation of a hit has just been reported finished, exactly
\* hit_animation_time after the hit.
C10_Witness ==
    /\ call.op = "is_hit_animation_finished" /\ ret = TRUE
    /\ ~enemy.is_alive /\ ~enemy.is_hit
    /\ now = enemy.hit_start_time + HitAnimationTime

\* The enemy has finished its hit animation and waits for reset_position.
AwaitingRespawn(e) == ~e.is_alive /\ ~e.is_hit

\* C11: reset_position(x, y) on an enemy awaiting respawn makes it alive and
\* not hit at exactly (x, y) with the stored path empty, the path cursor 0
\* and the moves-since-recalculation counter 0, every other field kept; and
\* the first update(p) after it, when the move gate lets it through, sets the
\* detection flag to what can_see_player says for the player of that call
\* and, when the player is detected, stores a path that starts at the
\* enemy's position before the update and ends at the player.
C11_ResetRespawns ==
    [][/\ (AwaitingRespawn(enemy) /\ ResetPosition)
           => /\ enemy'.is_alive /\ ~enemy'.is_hit
              /\ <<enemy'.x, enemy'.y>> = <<call'.x, call'.y>>
              /\ enemy'.path = <<>>
              /\ enemy'.path_index = 0
              /\ enemy'.moves_since_recalc = 0
              /\ enemy' = [enemy EXCEPT !.x = call'.x, !.y = call'.y,
                                        !.is_alive = TRUE, !.path = <<>>,
                                        !.path_index = 0,
                                        !.moves_since_recalc = 0]
       /\ (/\ call.op = "reset_position" /\ call'.op = "update"
           /\ enemy.is_alive
           /\ enemy.path = <<>> /\ enemy.path_index = 0
           /\ enemy.moves_since_recalc = 0
           /\ now - enemy.last_move_time >= enemy.move_delay)
           => \A p \in PlayerCells(maze) :
                 (\E order \in IF Patrols(enemy, p, now)
                               THEN Shuffles(patrol_directions)
                               ELSE {[i \in 1..Len(patrol_directions) |-> i]} :
                     enemy' = update(enemy, p[1], p[2], maze, now, order))
                 => /\ enemy'.player_detected
                        = (Abs(enemy.x - p[1]) + Abs(enemy.y - p[2]) <= VisionRange)
                    /\ enemy'.player_detected
                        => /\ enemy'.path # <<>>
                           /\ enemy'.path[1] = <<enemy.x, enemy.y>>
                           /\ enemy'.path[Len(enemy'.path)] = p
                           /\ enemy'.path_index
                                 = IF Len(enemy'.path) > 1 THEN 1 ELSE 0]_vars

\* A respawned enemy, hit earlier and alive again at the cell reset_position
\* was called with, with nothing left of its earlier pursuit.
C11_Witness ==
    /\ call.op = "reset_position"
    /\ enemy.hit_start_time > 0
    /\ now >= enemy.hit_start_time + HitAnimationTime
    /\ enemy.is_alive /\ ~enemy.is_hit
    /\ <<enemy.x, enemy.y>> = <<call.x, call.y>>
    /\ enemy.path = <<>> /\ enemy.moves_since_recalc = 0
    /\ enemy.last_move_time > 1

\* A step in which update invokes the pathfinder (the clock stands still in
\* every step but Tick).
InvokesPathfinder == call'.op = "update" /\ now' = now /\ call'.find_path

\* The enemy changes its cell in this step.
Moves == <<enemy'.x, enemy'.y>> # <<enemy.x, enemy.y>>

\* C12: update invokes the pathfinder only on a tick that passes the move
\* gate, with the player detected, and only when the enemy has no stored
\* path (none computed since it was created or respawned) or
\* moves_since_recalc has reached recalc_interval; an invocation leaves a
\* non-empty path and restarts moves_since_recalc, which then counts the
\* moves completed on pursuing ticks and is changed by nothing else but
\* reset_position, which also empties the path.  So between two invocations
\* the enemy completes at least recalc_interval moves.
C12_RecalcAtMostOncePerInterval ==
    [][/\ InvokesPathfinder
           => /\ enemy.is_alive
              /\ now - enemy.last_move_time >= enemy.move_delay
              /\ enemy'.player_detected
              /\ enemy.path = <<>> \/ enemy.moves_since_recalc >= RecalcInterval
              /\ enemy'.path # <<>>
              /\ enemy'.moves_since_recalc = IF Moves THEN 1 ELSE 0
       /\ (call'.op = "update" /\ now' = now /\ ~call'.find_path)
           => /\ enemy'.path = enemy.path
              /\ enemy'.moves_since_recalc
                    = IF Moves /\ enemy'.player_detected
                      THEN enemy.moves_since_recalc + 1
                      ELSE enemy.moves_since_recalc
       /\ call'.op # "update"
           => \/ /\ enemy'.moves_since_recalc = enemy.moves_since_recalc
                 /\ enemy'.path = enemy.path
              \/ /\ call'.op = "reset_position"
                 /\ enemy'.moves_since_recalc = 0
                 /\ enemy'.path = <<>>]_vars

\* A pursuing tick that passes the move gate and does not invoke the
\* pathfinder: the enemy stands on the player's tile with the one-cell path
\* of the previous invocation.
C12_Witness ==
    /\ call.op = "update" /\ call.branch = "chase" /\ ~call.find_path
    /\ enemy.path = << <<enemy.x, enemy.y>> >>
    /\ enemy.moves_since_recalc = 0
    /\ enemy.last_move_time = now

\* C32: update on an enemy that is not alive, in the Hit state or awaiting
\* its respawn, changes no field of it (position, direction, path, cursor,
\* counters, detection flag, last_move_time) and does not invoke the
\* pathfinder, whatever time has passed and wherever the player is.
C32_DeadUpdateIsNoOp ==
    [][(call'.op = "update" /\ now' = now /\ ~enemy.is_alive)
          => /\ enemy' = enemy
             /\ call'.branch = "dead"
             /\ ~call'.find_path]_vars

\* An update of an enemy that was pursuing the player, was hit, and whose
\* animation is over: its move delay has passed, and it has not stirred.
C32_Witness ==
    /\ call.op = "update" /\ call.branch = "dead"
    /\ ~enemy.is_alive /\ ~enemy.is_hit
    /\ enemy.player_detected /\ enemy.path # <<>>
    /\ now - enemy.last_move_time >= enemy.move_delay
    /\ now - enemy.hit_start_time >= HitAnimationTime

UpdateReturns ==
    /\ call'.op = "game_update" /\ now' = now
    /\ pc = "loop" /\ game.state = PLAYING /\ pc' # "respawn_search"

\* An alive enemy of the game g stands on the tile of the player pl.
EnemyOnPlayer(g, pl) ==
    \E i \in 1..Len(g.enemies) :
        g.enemies[i].is_alive /\ <<g.enemies[i].x, g.enemies[i].y>> = <<pl.x, pl.y>>

\* C27: when Game.update returns with the game still in PLAYING no alive
\* enemy is on the player's tile; an enemy that is on the player's tile
\* after its own update makes the state GAME_OVER in that update; and
\* GAME_WON is entered only with the player on the exit tile and no alive
\* enemy on the player's tile.
C27_CaughtMeansGameOver ==
    [][UpdateReturns
         => /\ game'.state \in {PLAYING, GAME_OVER, GAME_WON}
            /\ game'.state = PLAYING => ~EnemyOnPlayer(game', player)
            /\ (\E i \in 1..Len(game.enemies) :
                    /\ game.enemies[i].is_alive
                    /\ <<game'.enemies[i].x, game'.enemies[i].y>> = <<player.x, player.y>>)
                => game'.state = GAME_OVER /\ game'.game_over
            /\ game'.state = GAME_WON
                => /\ <<player.x, player.y>> = <<EXIT_X, EXIT_Y>>
                   /\ ~EnemyOnPlayer(game', player)]_vars

\* Game.update has just found an enemy on the player's tile and ended the
\* session.
C27_Witness ==
    /\ call.op = "game_update"
    /\ game.state = GAME_OVER /\ game.game_over
    /\ game.game_over_reason = "CAUGHT BY ENEMY!"
    /\ EnemyOnPlayer(game, player)

\* A step in which Game.update runs during play, whether it returns or not.
UpdateRuns ==
    /\ call'.op = "game_update" /\ now' = now
    /\ pc = "loop" /\ game.state = PLAYING

\* C28: in the game loop an enemy hit at time t stays dead on its tile, and
\* is passed over by the collision check, until the first Game.update at
\* or after t + 0.5 s; that update, when it returns, has respawned it
\* through reset_position, unless an enemy before it in the list caught the
\* player and ended the game; it is not respawned by anything else or any
\* earlier, and no update that returns with the game in PLAYING leaves an
\* enemy dead whose animation time has passed.
C28_RespawnAfterAnimation ==
    [][\A i \in 1..Len(game.enemies) :
          LET e == game.enemies[i]
              due == now - e.hit_start_time >= HitAnimationTime
          IN  (Len(game'.enemies) = Len(game.enemies) /\ ~e.is_alive)
              => /\ e.hit_start_time > 0
                 /\ (UpdateRuns /\ ~due)
                     => /\ game'.enemies[i] = e
                        /\ game'.state # GAME_OVER \/ EnemyOnPlayer(game', player)
                 /\ (UpdateReturns /\ due)
                     => \/ \E c \in RespawnCells(maze, player) :
                              game'.enemies[i]
                                 = reset_position([e EXCEPT !.is_hit = FALSE], c[1], c[2])
                        \/ /\ game'.state = GAME_OVER
                           /\ \E j \in 1..(i - 1) : collides(game'.enemies[j], player)
                 /\ game'.enemies[i].is_alive => UpdateReturns /\ due
                 /\ ~game'.enemies[i].is_alive
                     => /\ game'.enemies[i].x = e.x /\ game'.enemies[i].y = e.y
                        /\ game'.enemies[i].hit_start_time = e.hit_start_time
                        /\ (UpdateReturns /\ game'.state = PLAYING) => ~due]_vars

\* Game.update has brought back an enemy that was hit, no sooner than the
\* animation time after the hit, and the play goes on.
C28_Witness ==
    /\ call.op = "game_update" /\ game.state = PLAYING /\ pc = "loop"
    /\ \E i \in 1..Len(game.enemies) :
          LET e == game.enemies[i]
          IN  /\ e.is_alive /\ ~e.is_hit
              /\ e.hit_start_time > 0
              /\ now - e.hit_start_time >= HitAnimationTime
              /\ e.path_index = 0 /\ e.moves_since_recalc = 0
    /\ game.enemies_killed > 0

\* A key event handled during play.
KeyInPlay ==
    /\ call'.op = "handle_input" /\ now' = now
    /\ pc = "loop" /\ game.state = PLAYING /\ game.running
    /\ Len(game'.enemies) = Len(game.enemies)

\* C29: during a session 0 <= hits_used <= max_hits_allowed; one key event
\* (a hit attempt among them) raises hits_used by at most 1 and changes at
\* most one enemy, which was alive and next to the player and is dead
\* afterwards; with the hits used up, or with no alive enemy next to the
\* player, it changes no enemy and neither counter.  Nothing else raises
\* hits_used.
C29_HitsBounded ==
    /\ [](0 <= game.hits_used /\ game.hits_used <= game.max_hits_allowed)
    /\ [][LET changed == { i \in 1..Len(game.enemies) :
                             game'.enemies[i] # game.enemies[i] }
          IN  IF KeyInPlay
              THEN /\ game'.hits_used - game.hits_used \in {0, 1}
                   /\ Cardinality(changed) = game'.hits_used - game.hits_used
                   /\ game'.enemies_killed = game.enemies_killed + Cardinality(changed)
                   /\ \A i \in changed :
                         /\ i \in AdjacentAlive(game, player)
                         /\ ~game'.enemies[i].is_alive
                         /\ game'.enemies[i].hit_start_time = now
                   /\ (game.hits_used = game.max_hits_allowed
                          \/ AdjacentAlive(game, player) = {})
                       => changed = {}
              ELSE (game'.state = PLAYING /\ game.state = PLAYING)
                   => game'.hits_used = game.hits_used]_vars

\* One hit attempt with both enemies next to the player and hits to spare
\* has killed the first and left the second alive where it stood.
C29_Witness ==
    /\ call.op = "handle_input" /\ game.state = PLAYING
    /\ Len(game.enemies) = 2
    /\ game.hits_used = 1 /\ game.max_hits_allowed = 2
    /\ ~game.enemies[1].is_alive /\ game.enemies[1].hit_start_time = now
    /\ AdjacentAlive(game, player) = {2}

\* The score of a session with the moves and the hits of the game g, while
\* it is played and once it is won.
ScoreInPlay(g) ==
    IF INITIAL_SCORE - g.moves_made > 0 THEN INITIAL_SCORE - g.moves_made ELSE 0
HitBonus(g) ==
    (IF g.max_hits_allowed - g.hits_used > 0
     THEN g.max_hits_allowed - g.hits_used ELSE 0)
       * DIFFICULTY_SETTINGS[g.difficulty].hit_to_score_multiplier

\* C30: the score is never negative; a move that succeeds takes one point,
\* not below 0, and adds one to moves_made, a move a wall blocks changes
\* neither, so that score = max(0, INITIAL_SCORE - moves_made) while the
\* game is not won; the update that wins adds max(0, max_hits_allowed -
\* hits_used) times the multiplier of the difficulty to that value, and
\* nothing else changes the score or the number of moves.
C30_ScoreArithmetic ==
    /\ [](/\ game.score >= 0
          /\ game.state # GAME_WON => game.score = ScoreInPlay(game)
          /\ game.state = GAME_WON
                => game.score = ScoreInPlay(game) + HitBonus(game))
    /\ [][IF KeyInPlay
          THEN IF <<player'.x, player'.y>> # <<player.x, player.y>>
               THEN /\ game'.moves_made = game.moves_made + 1
                    /\ game'.score = IF game.score > 0 THEN game.score - 1 ELSE 0
               ELSE /\ game'.moves_made = game.moves_made
                    /\ game'.score = game.score
          ELSE (game.state = PLAYING /\ Len(game.enemies) > 0)
               => /\ game'.moves_made = game.moves_made
                  /\ game'.score # game.score => game'.state = GAME_WON]_vars

\* The player has reached the exit with more moves than the score had
\* points, and with a hit to spare: the score is the bonus alone.
C30_Witness ==
    /\ game.state = GAME_WON
    /\ game.moves_made > INITIAL_SCORE
    /\ game.hits_used < game.max_hits_allowed
    /\ game.score = HitBonus(game) /\ game.score > 0

-----------------------------------------------------------------------------
(* More properties of maze generation (checked under SpecMaze).            *)

\* The cells on the border of the grid.
Boundary(m) ==
    { c \in Cells(m) : c[1] = 0 \/ c[1] = m.width - 1
                        \/ c[2] = 0 \/ c[2] = m.height - 1 }

\* C14 as stated: after generate_maze on any width x height grid, every
\* boundary cell is still a wall.
C14_BoundaryStaysWall ==
    pc = "generated" => \A c \in Boundary(maze) : is_wall(maze, c[1], c[2])

\* C14, amended: on a grid of width and height at least 3, where the start
\* cell (1,1) is an interior cell, every boundary cell is a wall at every
\* point of generate_maze and after it.
C14_BoundaryStaysWallFrom3 ==
    (maze.width >= 3 /\ maze.height >= 3)
    => \A c \in Boundary(maze) : is_wall(maze, c[1], c[2])

\* A finished 6 x 7 maze carved up to the cells next to its border.
C14_Witness ==
    /\ pc = "generated"
    /\ maze.width = 6 /\ maze.height = 7
    /\ is_path(maze, 3, 5)
    /\ Cardinality(PathCells(maze)) = 11

-----------------------------------------------------------------------------
(* Properties of the player (checked under SpecPlayer).                    *)

\* C17: move(dx, dy, maze) returns True and puts the player on
\* (x + dx, y + dy) exactly when that cell is a path cell of the grid;
\* otherwise, the cell being a wall or outside the grid, it returns False and
\* changes neither the position nor the facing direction.  The player starts
\* on a path cell and is on a path cell after every move.
C17_MoveOnlyOntoPath ==
    [][/\ <<player.x, player.y>> \in PathCells(maze)
       /\ <<player'.x, player'.y>> \in PathCells(maze)
       /\ call'.op = "move"
           => LET target == <<player.x + call'.dx, player.y + call'.dy>>
              IN  IF target \in PathCells(maze)
                  THEN ret' = TRUE /\ <<player'.x, player'.y>> = target
                  ELSE ret' = FALSE /\ player' = player]_vars

\* A move to the right refused at the right edge of the grid, by a player
\* that faces up after an earlier move.
C17_Witness ==
    /\ call = [op |-> "move", dx |-> 1, dy |-> 0]
    /\ ret = FALSE
    /\ player.x = maze.width - 1
    /\ player.direction = "up"

-----------------------------------------------------------------------------
(* Properties of the game (checked under SpecGame).                        *)

\* C15: while the game is in the PLAYING state no step (a key with
\* Player.move or _try_hit_enemy and Enemy.hit, Game.update with
\* Enemy.update, find_path and reset_position, the clock) changes the grid;
\* the grid changes only when _initialize_game makes a new maze and when it
\* forces the exit cell, and there only in the exit cell.
C15_GridReadOnlyInPlay ==
    [][/\ game.state = PLAYING => maze' = maze
       /\ maze' # maze
           => \/ /\ pc = "force_exit"
                 /\ maze' = [maze EXCEPT !.grid[EXIT_Y][EXIT_X] = 0]
              \/ /\ game.state = ALGORITHM_SELECT
                 /\ pc' = "spawn_enemies"
                 /\ maze' \in GameMazes]_vars

\* A session in which the player has moved and hit an enemy that had come
\* along its path, the grid being the generated one with the exit forced.
C15_Witness ==
    /\ game.state = PLAYING /\ pc = "loop"
    /\ game.moves_made > 0 /\ game.hits_used > 0
    /\ \E i \in 1..Len(game.enemies) :
          /\ ~game.enemies[i].is_alive
          /\ game.enemies[i].path_index > 0
    /\ \E m \in GameMazes : maze = [m EXCEPT !.grid[EXIT_Y][EXIT_X] = 0]

\* C16: a classification query is answered only after the exit cell of the
\* session has been forced to Path, that is, not while _initialize_game is
\* still before or at its line 77.
C16_ExitForcedBeforeQueries ==
    call.op = "is_path" => pc \notin {"spawn_enemies", "force_exit"}

\* A step in which handle_input handles a KEYDOWN of the ESC key.
EscPressed ==
    /\ call'.op = "handle_input" /\ call'.event = "KEYDOWN"
    /\ pc = "loop" /\ game.running
    /\ game' = handle_keydown(game, player, "ESCAPE", maze, now).game
    /\ game' # game

\* C18: in the GAME_OVER and GAME_WON states ESC makes the state
\* DIFFICULTY_SELECT and leaves running True.
C18_EscReturnsToMenu ==
    [][(game.state \in {GAME_OVER, GAME_WON} /\ EscPressed)
          => game'.state = DIFFICULTY_SELECT /\ game'.running]_vars

\* The Manhattan distance between the cell (x, y) and the player pl.
DistanceToPlayer(x, y, pl) == Abs(x - pl.x) + Abs(y - pl.y)

\* The least distance from the start tile to a cell _spawn_enemies can draw.
SpawnDistance == (5 - PLAYER_START_X) + (5 - PLAYER_START_Y)

\* C19: every cell the game loop hands to reset_position is a path cell at
\* Manhattan distance at least 10 from the player's position at that moment,
\* and every enemy made at the start of a session is put on a path cell away
\* from the player, never on the player's start tile.
C19_SpawnsFarFromPlayer ==
    [][/\ (call'.op = "game_update" /\ pc = "loop" /\ game.state = PLAYING)
           => \A i \in 1..Len(game.enemies) :
                 (~game.enemies[i].is_alive /\ game'.enemies[i].is_alive)
                    => /\ is_path(maze, game'.enemies[i].x, game'.enemies[i].y)
                       /\ DistanceToPlayer(game'.enemies[i].x,
                                           game'.enemies[i].y, player) >= 10
       /\ (pc = "spawn_enemies" /\ Len(game'.enemies) > Len(game.enemies))
           => LET e == game'.enemies[Len(game'.enemies)]
              IN  /\ is_path(maze, e.x, e.y)
                  /\ <<e.x, e.y>> # <<PLAYER_START_X, PLAYER_START_Y>>
                  /\ <<player.x, player.y>> = <<PLAYER_START_X, PLAYER_START_Y>>
                  /\ DistanceToPlayer(e.x, e.y, player) >= SpawnDistance]_vars

\* An enemy that was hit has just been respawned by Game.update, at least 10
\* cells from the player.
C19_Witness ==
    /\ call.op = "game_update" /\ game.state = PLAYING /\ game.hits_used > 0
    /\ \E i \in 1..Len(game.enemies) :
          LET e == game.enemies[i]
          IN  /\ e.is_alive /\ e.hit_start_time > 0 /\ ~e.is_hit
              /\ e.path = <<>> /\ e.last_move_time < now
              /\ is_path(maze, e.x, e.y)
              /\ DistanceToPlayer(e.x, e.y, player) >= 10

-----------------------------------------------------------------------------
(* Properties of a search in progress (checked under SpecSearch).          *)

\* The cells of the frames of _dfs_helper that have not marked their cell
\* visited yet.
Entering(stk) == { stk[k].current : k \in { j \in 1..Len(stk) : stk[j].i = 0 } }

\* What the frames of the call stack have left to do: six steps each, less
\* the ones made.
RECURSIVE FramesLeft(_)
FramesLeft(stk) ==
    IF stk = <<>> THEN 0
    ELSE (6 - stk[Len(stk)].i) + FramesLeft(SubSeq(stk, 1, Len(stk) - 1))

\* A bound on the steps a search has left: the path cells it has not met
\* yet, which are finitely many on a finite grid, and the work it has
\* queued for the cells it has met.
SearchMeasure(algorithm, m, st, stk) ==
    IF algorithm = "BFS"
    THEN Cardinality(PathCells(m) \ st.visited) + Len(st.queue)
    ELSE IF algorithm = "DFS"
    THEN 7 * Cardinality(PathCells(m) \ (st.visited \cup Entering(stk)))
         + FramesLeft(stk)
    ELSE Cardinality(PathCells(m) \ DOMAIN st.node_dict) + Len(st.open_set)

\* C20: on every grid and for every pair of path cells, find_path of each
\* of the three strategies terminates, every step of its search either
\* returning or lowering a natural number that bounds the steps left, and
\* it returns the empty list exactly when the goal cannot be reached from
\* the start through path cells.
C20_TerminatesEmptyIffUnreachable ==
    /\ pc = "searching"
        => LET r == search_step(call.algorithm, maze, call.goal, search, stack)
               measure == SearchMeasure(call.algorithm, maze, search, stack)
           IN  /\ measure \in Nat
               /\ r.returns
                  \/ SearchMeasure(call.algorithm, maze, r.search, r.stack) < measure
    /\ (pc = "returned" /\ endpoints_valid(maze, call.start, call.goal))
        => (ret = <<>> <=> ~Connected(maze, call.start, call.goal))

\* A search between two path cells has run out of cells to visit, after at
\* least three of them, and returned the empty list.
C20_Witness ==
    /\ pc = "returned" /\ call.op = "find_path"
    /\ endpoints_valid(maze, call.start, call.goal)
    /\ ~Connected(maze, call.start, call.goal)
    /\ Cardinality(ReachableFrom(maze, call.start)) >= 3
    /\ ret = <<>>

\* C21: throughout an A* search the node the next iteration pops has the
\* least f_cost of all the nodes in the open set, also after a node in the
\* open set has had its costs lowered in place.
C21_PopsMinimum ==
    (pc = "searching" /\ call.algorithm = "A*" /\ search.open_set # <<>>)
    => \A k \in 1..Len(search.open_set) :
          ~Lt(search.node_dict, search.open_set[k], search.open_set[1])

-----------------------------------------------------------------------------
(* More properties of maze generation (checked under SpecMaze).            *)

\* The pairs of adjacent path cells of the grid.
PathPairs(m) ==
    { {p[1], p[2]} : p \in { q \in PathCells(m) \X PathCells(m) : Adjacent(q[1], q[2]) } }

\* C22: after generate_maze the path cells with 4-adjacency form a tree:
\* they are connected and the number of adjacent pairs of path cells is the
\* number of path cells minus one, so there is exactly one simple path
\* between any two of them.
C22_MazeIsTree ==
    pc = "generated"
    => /\ Cardinality(PathPairs(maze)) = Cardinality(PathCells(maze)) - 1
       /\ PathCells(maze) = ReachableFrom(maze, <<1, 1>>)

\* A finished 7 x 7 maze with a junction: a path cell with three path
\* neighbours.
C22_Witness ==
    /\ pc = "generated"
    /\ maze.width = 7 /\ maze.height = 7
    /\ Cardinality(PathCells(maze)) = 17
    /\ \E c \in PathCells(maze) :
          Cardinality({ d \in PathCells(maze) : Adjacent(c, d) }) = 3

\* The cells of the odd lattice that lie strictly inside the grid.
OddLattice(m) ==
    { c \in Cells(m) : /\ 0 < c[1] /\ c[1] < m.width - 1
                          /\ 0 < c[2] /\ c[2] < m.height - 1
                          /\ Odd(c[1]) /\ Odd(c[2]) }

\* The cells whose two coordinates are even.
EvenCells(m) == { c \in Cells(m) : ~Odd(c[1]) /\ ~Odd(c[2]) }

\* C33: after generate_maze every strictly interior cell whose x and y are
\* both odd is a path cell, and every cell whose x and y are both even is
\* still a wall.
C33_OddLatticeCarved ==
    pc = "generated"
    => /\ \A c \in OddLattice(maze) : maze.grid[c[2]][c[1]] = 0
       /\ \A c \in EvenCells(maze) : maze.grid[c[2]][c[1]] = 1

\* A finished 7 x 6 maze: six cells of the odd lattice, all open, and twelve
\* cells with even coordinates, all walls.
C33_Witness ==
    /\ pc = "generated"
    /\ maze.width = 7 /\ maze.height = 6
    /\ Cardinality(OddLattice(maze)) = 6
    /\ OddLattice(maze) \subseteq PathCells(maze)
    /\ Cardinality(EvenCells(maze)) = 12
    /\ EvenCells(maze) \cap PathCells(maze) = {}

-----------------------------------------------------------------------------
(* More properties of the enemy (checked under SpecEnemy).                 *)

\* A step in which update reaches _chase_player.
PursuingTick == call'.op = "update" /\ now' = now /\ call'.branch = "chase"

\* C23: on a pursuing tick, with the path, the cursor and the counter as
\* they are after the recomputation if there was one, the enemy moves to
\* path[path_index + 1] exactly when the path is not empty, path_index <
\* len(path) - 1 and that cell is a path cell, and then path_index and
\* moves_since_recalc grow by 1 each; otherwise cell, cursor and counter
\* stay as they are.
C23_PursuitStep ==
    [][PursuingTick
         => LET path == enemy'.path
                path_index == IF call'.find_path THEN 0 ELSE enemy.path_index
                moves_since_recalc ==
                    IF call'.find_path THEN 0 ELSE enemy.moves_since_recalc
            IN  /\ ~call'.find_path => path = enemy.path
                /\ IF /\ path # <<>>
                      /\ path_index < Len(path) - 1
                      /\ is_path(maze, path[path_index + 2][1], path[path_index + 2][2])
                   THEN /\ <<enemy'.x, enemy'.y>> = path[path_index + 2]
                        /\ enemy'.path_index = path_index + 1
                        /\ enemy'.moves_since_recalc = moves_since_recalc + 1
                   ELSE /\ <<enemy'.x, enemy'.y>> = <<enemy.x, enemy.y>>
                        /\ enemy'.path_index = path_index
                        /\ enemy'.moves_since_recalc = moves_since_recalc]_vars

\* A pursuing tick has just taken the enemy one step along a path of at
\* least three cells.
C23_Witness ==
    /\ call.op = "update" /\ call.branch = "chase" /\ call.find_path
    /\ Len(enemy.path) >= 3
    /\ enemy.path_index = 1 /\ enemy.moves_since_recalc = 1
    /\ <<enemy.x, enemy.y>> = enemy.path[2]
    /\ enemy.last_move_time = now

\* C26: whatever the order of update, hit and reset_position calls and
\* wherever the player is at each update, an enemy created on a path cell
\* and respawned on path cells stands on a path cell, and one update call
\* moves it by nothing or by one unit step along one axis.
C26_OnPathUnitSteps ==
    /\ [](pc = "playing" => is_path(maze, enemy.x, enemy.y))
    /\ [][(call'.op = "update" /\ now' = now)
             => Abs(enemy'.x - enemy.x) + Abs(enemy'.y - enemy.y) <= 1]_vars

\* An enemy that was hit and respawned has pursued the player again and
\* taken the first step of a new path.
C26_Witness ==
    /\ call.op = "update" /\ call.branch = "chase"
    /\ enemy.hit_start_time > 0 /\ enemy.is_alive
    /\ Len(enemy.path) >= 2 /\ enemy.path_index = 1
    /\ <<enemy.x, enemy.y>> = enemy.path[2]
    /\ is_path(maze, enemy.x, enemy.y)
    /\ enemy.last_move_time = now

\* C34: for each of the three strategies find_path(p, p) with p a path cell
\* is the one-element path <<p>>; and on every pursuing tick of an enemy that
\* stands on the player's tile the enemy ends the tick with a stored path of
\* length 1 and on the same tile.  When the tick asks the pathfinder, the
\* stored path is that one-element path.
C34_PathToItself ==
    /\ [](\A a \in Algorithms, p \in PathCells(maze) :
             find_path(a, maze, p, p) = <<p>>)
    /\ [][(PursuingTick /\ call'.player = <<enemy.x, enemy.y>>)
             => /\ Len(enemy'.path) = 1
                /\ <<enemy'.x, enemy'.y>> = <<enemy.x, enemy.y>>
                /\ enemy'.path_index = 0
                /\ call'.find_path => enemy'.path = << <<enemy.x, enemy.y>> >>]_vars

\* A pursuing tick of an enemy on the player's tile has asked the pathfinder
\* and stored the one-element path; the enemy, free to move again, is still
\* there.
C34_Witness ==
    /\ call.op = "update" /\ call.branch = "chase" /\ call.find_path
    /\ call.player = <<enemy.x, enemy.y>>
    /\ enemy.path = << <<enemy.x, enemy.y>> >>
    /\ enemy.path_index = 0 /\ enemy.moves_since_recalc = 0
    /\ enemy.last_move_time = now

-----------------------------------------------------------------------------
(* Properties of the enemy on a grid with walls between its cells (checked *)
(* under SpecEnemyWalled).                                                 *)

\* The path cells next to the enemy's cell.
PathNeighbours(e, m) == { c \in PathCells(m) : Adjacent(c, <<e.x, e.y>>) }

\* C24: on a patrolling tick the enemy moves to a path cell next to its own
\* whenever there is one, and any of them can be the one chosen; it stays
\* where it is when its four neighbours are walls or outside the grid; the
\* stored path, the cursor and the recalculation counter are left alone.
C24_PatrolStep ==
    /\ [][(call'.op = "update" /\ now' = now /\ call'.branch = "patrol")
             => /\ IF PathNeighbours(enemy, maze) # {}
                   THEN <<enemy'.x, enemy'.y>> \in PathNeighbours(enemy, maze)
                   ELSE <<enemy'.x, enemy'.y>> = <<enemy.x, enemy.y>>
                /\ enemy'.path = enemy.path
                /\ enemy'.path_index = enemy.path_index
                /\ enemy'.moves_since_recalc = enemy.moves_since_recalc]_vars
    /\ [](\A p \in PlayerCells(maze) :
             (pc = "playing" /\ UpdateBranch(enemy, p, now) = "patrol")
             => \A c \in PathNeighbours(enemy, maze) :
                   \E order \in Shuffles(patrol_directions) :
                      LET after == update(enemy, p[1], p[2], maze, now, order)
                      IN  <<after.x, after.y>> = c)

\* A patrolling tick has left the enemy on its cell, which has no path
\* neighbour, with the one-cell path of an earlier pursuit still stored.
C24_Witness ==
    /\ call.op = "update" /\ call.branch = "patrol"
    /\ PathNeighbours(enemy, maze) = {}
    /\ enemy.path # <<>>
    /\ ~enemy.player_detected
    /\ enemy.last_move_time = now

\* What a pursuing tick leaves behind: a move goes to the cell under the
\* raised cursor of the stored path and is counted, and the enemy stays
\* only without a path or at the end of it.
Pursued(e, after) ==
    /\ <<after.x, after.y>> # <<e.x, e.y>>
        => /\ after.path_index >= 1 /\ after.moves_since_recalc >= 1
           /\ after.path_index < Len(after.path)
           /\ <<after.x, after.y>> = after.path[after.path_index + 1]
    /\ <<after.x, after.y>> = <<e.x, e.y>>
        => after.path = <<>> \/ after.path_index = Len(after.path) - 1

\* What a patrolling tick leaves behind: the stored path, the cursor and the
\* counter as they were, and the enemy on a neighbouring path cell when there
\* is one.
Patrolled(e, after, m) ==
    /\ after.path = e.path
    /\ after.path_index = e.path_index
    /\ after.moves_since_recalc = e.moves_since_recalc
    /\ IF PathNeighbours(e, m) # {}
       THEN <<after.x, after.y>> \in PathNeighbours(e, m)
       ELSE <<after.x, after.y>> = <<e.x, e.y>>

\* C25: on every tick of an alive enemy that passes the move gate, whatever
\* the enemy has stored from earlier ticks, the enemy pursues exactly when
\* |enemy.x - player.x| + |enemy.y - player.y| <= vision_range and
\* patrols otherwise, with or without walls between the two and with or
\* without a path to the player.
C25_PursuesIffInRange ==
    \A p \in PlayerCells(maze) :
       (pc = "playing" /\ enemy.is_alive
           /\ now - enemy.last_move_time >= enemy.move_delay)
       => LET near == Abs(enemy.x - p[1]) + Abs(enemy.y - p[2]) <= VisionRange
          IN  \A order \in IF near THEN {[i \in 1..Len(patrol_directions) |-> i]}
                            ELSE Shuffles(patrol_directions) :
                 LET after == update(enemy, p[1], p[2], maze, now, order)
                 IN  /\ after.player_detected = near
                     /\ IF near THEN Pursued(enemy, after)
                        ELSE Patrolled(enemy, after, maze)

\* A tick has pursued a player who is in range behind a wall: the flag is
\* set, the pathfinder was asked and found no path, and the enemy, which
\* has a path neighbour a patrol would have taken it to, stayed.
C25_Witness ==
    /\ call.op = "update" /\ call.branch = "chase" /\ call.find_path
    /\ enemy.player_detected /\ enemy.path = <<>>
    /\ PathNeighbours(enemy, maze) # {}
    /\ enemy.last_move_time = now

-----------------------------------------------------------------------------
(* Properties of the pursuit of a player who stands still (checked under   *)
(* SpecChase).                                                             *)

EnemyCell(e) == <<e.x, e.y>>

\* The enemies after 0, 1, ... ungated ticks of update with the player at p,
\* each tick made as soon as the move delay allows: at most k ticks, and
\* none once the enemy does not detect the player.
RECURSIVE Pursuit(_, _, _, _)
Pursuit(es, p, m, k) ==
    LET e == es[Len(es)]
    IN  IF k = 0 \/ ~can_see_player(e, p[1], p[2]) THEN es
        ELSE Pursuit(Append(es, update(e, p[1], p[2], m,
                                       e.last_move_time + e.move_delay,
                                       [i \in 1..Len(patrol_directions) |-> i])),
                     p, m, k - 1)

\* An alive enemy as ChaseSpawn leaves it, before its first tick through
\* the move gate.
JustSpawned(e, t) ==
    e.is_alive /\ e.path = <<>> /\ e.moves_since_recalc = 0 /\ e.last_move_time = t

\* C35: in a generated maze, with the player standing still on a path cell,
\* every pursuing tick that passes the move gate, of an alive enemy that is
\* not on the player's tile, takes the enemy to a cell whose distance to the
\* player in the maze is one less than before, whichever of A*, BFS and DFS
\* the enemy uses; and an enemy put into the maze at distance d from the
\* player that detects the player at each tick is on the player's tile
\* after d such ticks and not earlier.
C35_PursuitClosesIn ==
    /\ []((pc = "playing" /\ JustSpawned(enemy, now))
            => LET p == <<player.x, player.y>>
                   d == Distance(maze, EnemyCell(enemy), p)
                   run == Pursuit(<<enemy>>, p, maze, d)
               IN  (\A i \in 1..Len(run) : can_see_player(run[i], p[1], p[2]))
                   => /\ Len(run) = d + 1
                      /\ \A i \in 1..(d + 1) :
                            Distance(maze, EnemyCell(run[i]), p) = d + 1 - i
                      /\ EnemyCell(run[d + 1]) = p)
    /\ [][(PursuingTick /\ call'.player # EnemyCell(enemy))
             => /\ call'.player = <<player.x, player.y>>
                /\ Distance(maze, EnemyCell(enemy'), call'.player)
                      = Distance(maze, EnemyCell(enemy), call'.player) - 1]_vars

\* In a 7 x 5 maze an enemy that searches depth first and was three or more
\* steps of the maze away from the player, farther than the two are apart
\* on the grid, has taken the first step of the path it found, and is one
\* step closer.
C35_Witness ==
    /\ maze.width = 7 /\ maze.height = 5
    /\ call.op = "update" /\ call.branch = "chase" /\ call.find_path
    /\ enemy.algorithm = "DFS"
    /\ Len(enemy.path) >= 4 /\ enemy.path_index = 1
    /\ EnemyCell(enemy) = enemy.path[2]
    /\ enemy.path[Len(enemy.path)] = <<player.x, player.y>>
    /\ Distance(maze, EnemyCell(enemy), <<player.x, player.y>>) = Len(enemy.path) - 2
    /\ Abs(enemy.path[1][1] - player.x) + Abs(enemy.path[1][2] - player.y)
          < Len(enemy.path) - 1

=============================================================================
